---- MODULE Spec2Model ----
(***************************************************************************)
(* MeetingWatch: the agenda summarisation pipeline of scraper/utils.py.   *)
(*                                                                         *)
(* Strings are sequences of tokens.  A token is one whitespace character   *)
(* (SP, TAB, NL) or one whole word of a closed vocabulary; Len(token) is   *)
(* the number of characters of the word.  The regular expressions of the   *)
(* source are translated to matchers over token sequences; an alternative  *)
(* of a pattern whose literal words are not in the vocabulary can match    *)
(* no modelled string and is left out (each matcher lists the              *)
(* alternatives it keeps).                                                 *)
(***************************************************************************)
EXTENDS Integers, Sequences, FiniteSets, TLC

VARIABLES cfg, cache, last

vars == <<cfg, cache, last>>

(***************************************************************************)
(* Tokens                                                                  *)
(***************************************************************************)
SP == " "
TAB == "\t"
NL == "\n"

IsWs(t) == t \in {SP, TAB, NL}

\* str.lower() on one word of the vocabulary
LowerTok(t) ==
  CASE t = "Work" -> "work"
    [] t = "Session" -> "session"
    [] t = "Budget" -> "budget"
    [] t = "BUDGET" -> "budget"
    [] t = "Discussion" -> "discussion"
    [] t = "FY2026" -> "fy2026"
    [] t = "Call" -> "call"
    [] t = "Order" -> "order"
    [] t = "Channel" -> "channel"
    [] t = "ADA" -> "ada"
    [] t = "Resolution" -> "resolution"
    [] t = "Facebook" -> "facebook"
    [] t = "Live" -> "live"
    [] t = "Board" -> "board"
    [] t = "County" -> "county"
    [] t = "Commissioners" -> "commissioners"
    [] t = "Study" -> "study"
    [] t = "Workshop" -> "workshop"
    [] t = "Retreat" -> "retreat"
    [] t = "Meeting" -> "meeting"
    [] t = "City" -> "city"
    [] t = "Alamosa" -> "alamosa"
    [] t = "Council" -> "council"
    [] OTHER -> t

\* words holding a digit or a currency sign: re.search(r"[\d$]", .)
DigitToks == {"FY2026", "fy2026", "18", "12", "4.", "5.", "$5", "1/2/2026"}

\* words that start with digits followed by a word boundary (\d+\b)
NumberToks == {"18", "12", "4.", "5."}

\* words that are a bare date: \d{1,2}[-/]\d{1,2}[-/]\d{2,4}
DateToks == {"1/2/2026"}

\* words matching \d+(?:\.[A-Z])?\.  (the numbered-section prefix)
SectionNumToks == {"4.", "5."}

\* lower-case words that are alternatives of _POSITIVE_SIGNALS
PositiveWords == {"budget", "resolution", "annexation"}

\* words whose characters all lie in [0-9A-Z.\- ] (case-sensitive class)
UpperPlainToks == {"BUDGET", "ADA", "18", "12", "4.", "5.", "-"}

\* words ending with ":" whose other characters lie in [0-9A-Za-z. -]
ColonToks == {"items:"}

\* words with a character outside [0-9A-Za-z. -]
NonPlainToks == {"$5", "items:", "1/2/2026"}

(***************************************************************************)
(* String helpers                                                          *)
(***************************************************************************)
RECURSIVE Lower(_)
Lower(s) == IF s = <<>> THEN <<>> ELSE <<LowerTok(Head(s))>> \o Lower(Tail(s))

RECURSIVE Width(_)
Width(s) == IF s = <<>> THEN 0 ELSE Len(Head(s)) + Width(Tail(s))

RECURSIVE LStrip(_)
LStrip(s) == IF s # <<>> /\ IsWs(Head(s)) THEN LStrip(Tail(s)) ELSE s

RECURSIVE RStrip(_)
RStrip(s) ==
  IF s # <<>> /\ IsWs(s[Len(s)]) THEN RStrip(SubSeq(s, 1, Len(s) - 1)) ELSE s

Strip(s) == RStrip(LStrip(s))

\* re.sub(r"\s+", " ", s): every run of whitespace becomes one space
RECURSIVE CollapseWs(_)
CollapseWs(s) ==
  IF s = <<>> THEN <<>>
  ELSE IF IsWs(Head(s))
       THEN <<SP>> \o CollapseWs(LStrip(s))
       ELSE <<Head(s)>> \o CollapseWs(Tail(s))

clean_text(s) == Strip(CollapseWs(s))

\* str.splitlines(): no trailing empty line, "" gives []
RECURSIVE SplitAcc(_, _)
SplitAcc(s, cur) ==
  IF s = <<>> THEN (IF cur = <<>> THEN <<>> ELSE <<cur>>)
  ELSE IF Head(s) = NL THEN <<cur>> \o SplitAcc(Tail(s), <<>>)
       ELSE SplitAcc(Tail(s), Append(cur, Head(s)))

SplitLines(s) == SplitAcc(s, <<>>)

\* " ".join(parts)
RECURSIVE JoinSp(_)
JoinSp(parts) ==
  IF parts = <<>> THEN <<>>
  ELSE IF Len(parts) = 1 THEN parts[1]
       ELSE parts[1] \o <<SP>> \o JoinSp(Tail(parts))

\* len(s.split())
CountWords(s) ==
  Cardinality({i \in 1..Len(s) : ~IsWs(s[i]) /\ (i = 1 \/ IsWs(s[i - 1]))})

\* s contains p as a contiguous run of tokens
HasPhrase(s, p) ==
  \E i \in 1..(Len(s) - Len(p) + 1) : SubSeq(s, i, i + Len(p) - 1) = p

\* the first k characters of word t (t is longer than k)
CutTok(t, k) == "#"

\* s[:n]
RECURSIVE Truncate(_, _)
Truncate(s, n) ==
  IF s = <<>> \/ n <= 0 THEN <<>>
  ELSE IF Len(Head(s)) <= n
       THEN <<Head(s)>> \o Truncate(Tail(s), n - Len(Head(s)))
       ELSE <<CutTok(Head(s), n)>>

MapSeq(Op(_), xs) == [i \in 1..Len(xs) |-> Op(xs[i])]

RECURSIVE SelectNonEmpty(_)
SelectNonEmpty(xs) ==
  IF xs = <<>> THEN <<>>
  ELSE IF Head(xs) = <<>> THEN SelectNonEmpty(Tail(xs))
       ELSE <<Head(xs)>> \o SelectNonEmpty(Tail(xs))

Take(xs, n) == SubSeq(xs, 1, IF Len(xs) < n THEN Len(xs) ELSE n)

Max(a, b) == IF a >= b THEN a ELSE b

(***************************************************************************)
(* Filters / signals                                                       *)
(***************************************************************************)
\* re.search(r"[\d$]", s)
HasDigit(s) == \E i \in 1..Len(s) : s[i] \in DigitToks

\* _POSITIVE_SIGNALS.search(s): \b(budget|resolution|annexation|...)\b
PositiveSignals(s) == \E i \in 1..Len(s) : LowerTok(s[i]) \in PositiveWords

\* "channel" followed by \s* and a number
ChannelNumber(s) ==
  \E i \in 1..Len(s) :
    /\ LowerTok(s[i]) = "channel"
    /\ LStrip(SubSeq(s, i + 1, Len(s))) # <<>>
    /\ Head(LStrip(SubSeq(s, i + 1, Len(s)))) \in NumberToks

\* ^[0-9A-Z. -]+:$ with IGNORECASE ($ also matches before a final newline)
ColonHeading(s) ==
  LET body == IF s # <<>> /\ s[Len(s)] = NL THEN SubSeq(s, 1, Len(s) - 1) ELSE s
  IN /\ body # <<>>
     /\ body[Len(body)] \in ColonToks
     /\ \A i \in 1..(Len(body) - 1) : body[i] = SP \/ body[i] \notin (NonPlainToks \cup {TAB, NL})

\* a bare date and nothing else ($ also matches before a final newline)
BareDate(s) ==
  \/ Len(s) = 1 /\ s[1] \in DateToks
  \/ Len(s) = 2 /\ s[1] \in DateToks /\ s[2] = NL

\* _DROP_RE.search(s), the alternatives the vocabulary reaches:
\*   \bcall to order\b | \bChannel\s*\d+\b | channel\s*18 | broadcast |
\*   ADA\b | \bFacebook Live\b | ^[0-9A-Z. -]+:$ |
\*   ^\d{1,2}[-/]\d{1,2}[-/]\d{2,4}$
DropRe(s) ==
  LET l == Lower(s)
  IN \/ HasPhrase(l, <<"call", SP, "to", SP, "order">>)
     \/ ChannelNumber(s)
     \/ \E i \in 1..Len(l) : l[i] \in {"broadcast", "ada"}
     \/ HasPhrase(l, <<"facebook", SP, "live">>)
     \/ ColonHeading(s)
     \/ BareDate(s)

\* _SINGLE_TOPIC_HINTS.search(text): "work session"
SingleTopicHints(text) == HasPhrase(Lower(text), <<"work", SP, "session">>)

\* _SINGLE_TOPIC_HEADINGS.search(ln): ^\s*(discussion|call to order|...)\s*$
SingleTopicHeadings(ln) ==
  Strip(Lower(ln)) \in {<<"discussion">>, <<"call", SP, "to", SP, "order">>}

\* \b(roll call|adjourn|call to order|channel|stream|presenter|attachments?)\b
Procedural(ln) ==
  LET l == Lower(ln)
  IN \/ HasPhrase(l, <<"call", SP, "to", SP, "order">>)
     \/ \E i \in 1..Len(l) : l[i] = "channel"

\* the priority keywords of the single-topic detector, in the order tried
PriorityKeywords == <<"budget", "hearing">>

\* re.search(kw, ln, re.IGNORECASE)
HasKeyword(ln, kw) == \E i \in 1..Len(ln) : LowerTok(ln[i]) = kw

\* _SECTION_START.match(s): ^\s*(\d+(?:\.[A-Z])?\.)\s+(.*)
SectionStart(s) ==
  LET t == LStrip(s)
  IN Len(t) >= 2 /\ t[1] \in SectionNumToks /\ IsWs(t[2])

\* re.sub(r"^\s*\d+(?:\.[A-Z])?\.\s*", "", ln).strip()
SectionHead(ln) ==
  LET t == LStrip(ln)
  IN IF t # <<>> /\ t[1] \in SectionNumToks THEN Strip(Tail(t)) ELSE Strip(ln)

\* re.fullmatch(r"[0-9A-Z.\- ]{3,}", line)
UpperOnly(line) ==
  /\ Width(line) >= 3
  /\ \A i \in 1..Len(line) : line[i] = SP \/ line[i] \in UpperPlainToks

\* line.endswith(":")
EndsWithColon(line) == line # <<>> /\ line[Len(line)] \in ColonToks

(***************************************************************************)
(* Single-topic detector                                                   *)
(***************************************************************************)
TopicMinWords == 3
TopicMaxWords == 20

\* the loop of lines 151-159 over the cleaned lines
RECURSIVE TopicCandidates(_)
TopicCandidates(lines) ==
  IF lines = <<>> THEN <<>>
  ELSE LET ln == Head(lines)
           rest == TopicCandidates(Tail(lines))
       IN IF ln = <<>> \/ DropRe(ln) \/ SingleTopicHeadings(ln) THEN rest
          ELSE IF /\ TopicMinWords <= CountWords(ln)
                  /\ CountWords(ln) <= TopicMaxWords
                  /\ ~Procedural(ln)
               THEN <<ln>> \o rest
               ELSE rest

\* the detector without the keyword preference
PreferredTopic_None(kws, candidates) == <<>>

\* the loops of lines 162-165: keywords outermost, candidates innermost
RECURSIVE PreferredTopic(_, _)
PreferredTopic(kws, candidates) ==
  IF kws = <<>> THEN <<>>
  ELSE LET hits == {i \in 1..Len(candidates) : HasKeyword(candidates[i], Head(kws))}
       IN IF hits # {}
          THEN <<candidates[CHOOSE i \in hits : \A j \in hits : i <= j]>>
          ELSE PreferredTopic(Tail(kws), candidates)

\* _is_single_topic_agenda: <<>> is None, <<ln>> is the topic
IsSingleTopicAgenda(text) ==
  IF ~SingleTopicHints(text) THEN <<>>
  ELSE LET candidates == TopicCandidates(MapSeq(clean_text, SplitLines(text)))
           preferred == PreferredTopic(PriorityKeywords, candidates)
       IN IF preferred # <<>> THEN preferred
          ELSE IF candidates # <<>> THEN <<candidates[1]>> ELSE <<>>

(***************************************************************************)
(* Rule / heuristic passes                                                 *)
(***************************************************************************)
MaxBulletChars == 280
HeuristicMaxChars == 240
HeuristicMinChars == 18
MinBulletChars == 25
MinBulletWords == 3

\* is_noise(s)
IsNoise(s) == s = <<>> \/ DropRe(s)

\* the inner loop of lines 319-327 running on over blank lines
RECURSIVE CollectChunk_ThroughBlank(_, _, _)
CollectChunk_ThroughBlank(lines, j, parts) ==
  IF j > Len(lines) THEN [j |-> j, parts |-> parts]
  ELSE LET nxt == Strip(lines[j])
       IN IF SectionStart(nxt) THEN [j |-> j, parts |-> parts]
          ELSE IF nxt = <<>> \/ DropRe(nxt)
               THEN CollectChunk_ThroughBlank(lines, j + 1, parts)
               ELSE CollectChunk_ThroughBlank(lines, j + 1, Append(parts, nxt))

\* the inner loop of lines 319-327: [j |-> where it stopped, parts |-> chunk_parts]
RECURSIVE CollectChunk(_, _, _)
CollectChunk(lines, j, parts) ==
  IF j > Len(lines) THEN [j |-> j, parts |-> parts]
  ELSE LET nxt == Strip(lines[j])
       IN IF nxt = <<>> \/ SectionStart(nxt) THEN [j |-> j, parts |-> parts]
          ELSE IF DropRe(nxt) THEN CollectChunk(lines, j + 1, parts)
               ELSE CollectChunk(lines, j + 1, Append(parts, nxt))

\* lines 316-335: the bullets a numbered section adds (none or one)
SectionBullet(ln, parts) ==
  LET head == SectionHead(ln)
      joined == CollapseWs(Strip(JoinSp(<<head>> \o parts)))
      candidate == IF (head = <<>> \/ EndsWithColon(head)) /\ parts # <<>>
                   THEN JoinSp(parts) ELSE joined
  IN IF /\ candidate # <<>>
        /\ ~DropRe(candidate)
        /\ (PositiveSignals(candidate) \/ HasDigit(candidate))
     THEN <<clean_text(candidate)>>
     ELSE <<>>

\* the while loop of lines 308-342
RECURSIVE RuleScan(_, _, _, _)
RuleScan(lines, i, bullets, limit) ==
  IF i > Len(lines) \/ Len(bullets) >= limit THEN bullets
  ELSE LET ln == lines[i]
       IN IF IsNoise(ln) THEN RuleScan(lines, i + 1, bullets, limit)
          ELSE IF SectionStart(ln)
               THEN LET c == CollectChunk(lines, i + 1, <<>>)
                    IN RuleScan(lines, c.j, bullets \o SectionBullet(ln, c.parts), limit)
               ELSE IF PositiveSignals(ln) \/ HasDigit(ln)
                    THEN RuleScan(lines, i + 1, Append(bullets, clean_text(ln)), limit)
                    ELSE RuleScan(lines, i + 1, bullets, limit)

\* the dedupe / trim loop of lines 345-355
RECURSIVE RuleDedupe(_, _, _, _)
RuleDedupe(bullets, out, seen, limit) ==
  IF bullets = <<>> THEN out
  ELSE LET b == Head(bullets)
           k == Lower(b)
       IN IF k \in seen \/ SectionStart(b) \/ BareDate(b)
          THEN RuleDedupe(Tail(bullets), out, seen, limit)
          ELSE IF Len(out) + 1 >= limit
               THEN Append(out, Truncate(b, MaxBulletChars))
               ELSE RuleDedupe(Tail(bullets), Append(out, Truncate(b, MaxBulletChars)),
                               seen \cup {k}, limit)

\* _legistar_rule_based_bullets(text, limit=limit)
LegistarRuleBasedBullets(text, limit) ==
  RuleDedupe(RuleScan(MapSeq(Strip, SplitLines(text)), 1, <<>>, limit), <<>>, {}, limit)

\* _heuristic_bullets(text, max_items=max_items)
RECURSIVE HeuristicScan(_, _, _)
HeuristicScan(raws, bullets, max_items) ==
  IF raws = <<>> THEN bullets
  ELSE LET line == clean_text(Head(raws))
       IN IF \/ line = <<>> \/ DropRe(line)
             \/ ~(PositiveSignals(line) \/ HasDigit(line))
             \/ (Width(line) < HeuristicMinChars /\ ~HasDigit(line))
          THEN HeuristicScan(Tail(raws), bullets, max_items)
          ELSE IF Len(bullets) + 1 >= max_items
               THEN Append(bullets, Truncate(line, HeuristicMaxChars))
               ELSE HeuristicScan(Tail(raws),
                                  Append(bullets, Truncate(line, HeuristicMaxChars)),
                                  max_items)

HeuristicBullets(text, max_items) == HeuristicScan(SplitLines(text), <<>>, max_items)

\* the loop of _post_filter_bullets
RECURSIVE PostFilterScan(_, _, _, _)
PostFilterScan(bullets, out, seen, limit) ==
  IF bullets = <<>> THEN out
  ELSE LET line == clean_text(Head(bullets))
           key == Lower(line)
       IN IF \/ line = <<>>
             \/ DropRe(line)
             \/ (UpperOnly(line) /\ ~HasDigit(line))
             \/ EndsWithColon(line)
             \/ (CountWords(line) < MinBulletWords /\ ~HasDigit(line))
             \/ (Width(line) < MinBulletChars /\ ~HasDigit(line))
             \/ key \in seen
          THEN PostFilterScan(Tail(bullets), out, seen, limit)
          ELSE IF Len(out) + 1 >= limit
               THEN Append(out, line)
               ELSE PostFilterScan(Tail(bullets), Append(out, line), seen \cup {key}, limit)

\* _post_filter_bullets(bullets, limit=limit)
PostFilterBullets(bullets, limit) == PostFilterScan(bullets, <<>>, {}, limit)

(***************************************************************************)
(* JSON text: a sequence of JSON tokens [t, v].  json.dumps writes it,     *)
(* json.loads parses it or raises.                                         *)
(***************************************************************************)
JLB == [t |-> "[", v |-> <<>>]
JRB == [t |-> "]", v |-> <<>>]
JComma == [t |-> ",", v |-> <<>>]
JObj == [t |-> "{}", v |-> <<>>]
JFence == [t |-> "fence", v |-> <<>>]
JStr(s) == [t |-> "str", v |-> s]
JNum(s) == [t |-> "num", v |-> s]

\* json.dumps with the item separator left out
JsonItems_NoSeparator(xs) == MapSeq(JStr, xs)

RECURSIVE JsonItems(_)
JsonItems(xs) ==
  IF xs = <<>> THEN <<>>
  ELSE IF Len(xs) = 1 THEN <<JStr(xs[1])>>
       ELSE <<JStr(xs[1]), JComma>> \o JsonItems(Tail(xs))

\* json.dumps(list_of_strings, ensure_ascii=False, indent=2)
JsonDumps(xs) == <<JLB>> \o JsonItems(xs) \o <<JRB>>

\* the values between "[" and "]": [ok, val], ok false on a syntax error
RECURSIVE ParseItems(_, _)
ParseItems(toks, acc) ==
  IF toks = <<>> THEN [ok |-> TRUE, val |-> acc]
  ELSE IF Head(toks).t \notin {"str", "num"} THEN [ok |-> FALSE, val |-> <<>>]
       ELSE IF Len(toks) = 1 THEN [ok |-> TRUE, val |-> Append(acc, Head(toks))]
            ELSE IF toks[2] # JComma \/ Len(toks) = 2 THEN [ok |-> FALSE, val |-> <<>>]
                 ELSE ParseItems(SubSeq(toks, 3, Len(toks)), Append(acc, Head(toks)))

\* json.loads(raw): ok false when it raises; isList as isinstance(data, list)
JsonLoads(raw) ==
  IF raw = <<JObj>> THEN [ok |-> TRUE, isList |-> FALSE, val |-> <<>>]
  ELSE IF Len(raw) >= 2 /\ raw[1] = JLB /\ raw[Len(raw)] = JRB
       THEN LET p == ParseItems(SubSeq(raw, 2, Len(raw) - 1), <<>>)
            IN [ok |-> p.ok, isList |-> p.ok, val |-> p.val]
       ELSE [ok |-> FALSE, isList |-> FALSE, val |-> <<>>]

\* the Python value of a parsed JSON item (a string stays itself)
ItemValue(item) == item.v

\* line 249: a leading and a trailing code fence are removed
StripFences(raw) ==
  LET a == IF raw # <<>> /\ Head(raw) = JFence THEN Tail(raw) ELSE raw
  IN IF a # <<>> /\ a[Len(a)] = JFence THEN SubSeq(a, 1, Len(a) - 1) ELSE a

(***************************************************************************)
(* PDF helpers                                                             *)
(***************************************************************************)
\* _looks_like_pdf_url(url): re.search(r"\.pdf($|\?)", url, re.IGNORECASE)
LooksLikePdfUrl(url) ==
  \E i \in 1..Len(url) :
    /\ url[i] \in {".pdf", ".PDF"}
    /\ (i = Len(url) \/ url[i + 1] = "?")

\* "application/pdf" in (headers.get("Content-Type") or "").lower()
CtypeHasPdf(ctype) ==
  \E i \in 1..Len(ctype) : ctype[i] \in {"application/pdf", "Application/PDF"}

\* _download_pdf_bytes(url): head and get are what the server answers.
\* [ok |-> bytes are returned, bytes |-> r.content, reqs |-> the requests issued]
NoBytes == [kind |-> "none", raw |-> <<>>]

\* the download giving up when the HEAD request raises
DownloadPdfBytes_StopsOnHeadError(url, head, get) ==
  IF head.kind = "error" \/ (~CtypeHasPdf(head.ctype) /\ ~LooksLikePdfUrl(url))
  THEN [ok |-> FALSE, bytes |-> NoBytes, reqs |-> <<"HEAD">>]
  ELSE IF \/ get.kind = "error" \/ get.status \in {"4xx", "5xx"}
          \/ (~CtypeHasPdf(get.ctype) /\ ~LooksLikePdfUrl(url))
       THEN [ok |-> FALSE, bytes |-> NoBytes, reqs |-> <<"HEAD", "GET">>]
       ELSE [ok |-> TRUE, bytes |-> get.body, reqs |-> <<"HEAD", "GET">>]

\* the download without r.raise_for_status()
DownloadPdfBytes_AnyStatus(url, head, get) ==
  IF head.kind = "ok" /\ ~CtypeHasPdf(head.ctype) /\ ~LooksLikePdfUrl(url)
  THEN [ok |-> FALSE, bytes |-> NoBytes, reqs |-> <<"HEAD">>]
  ELSE IF \/ get.kind = "error"
          \/ (~CtypeHasPdf(get.ctype) /\ ~LooksLikePdfUrl(url))
       THEN [ok |-> FALSE, bytes |-> NoBytes, reqs |-> <<"HEAD", "GET">>]
       ELSE [ok |-> TRUE, bytes |-> get.body, reqs |-> <<"HEAD", "GET">>]

DownloadPdfBytes(url, head, get) ==
  IF head.kind = "ok" /\ ~CtypeHasPdf(head.ctype) /\ ~LooksLikePdfUrl(url)
  THEN [ok |-> FALSE, bytes |-> NoBytes, reqs |-> <<"HEAD">>]
  ELSE IF \/ get.kind = "error"
          \/ get.status \in {"4xx", "5xx"}
          \/ (~CtypeHasPdf(get.ctype) /\ ~LooksLikePdfUrl(url))
       THEN [ok |-> FALSE, bytes |-> NoBytes, reqs |-> <<"HEAD", "GET">>]
       ELSE [ok |-> TRUE, bytes |-> get.body, reqs |-> <<"HEAD", "GET">>]

\* re.sub(r"[ \t]+\n", "\n", txt)
RECURSIVE StripLineEnds(_)
StripLineEnds(s) ==
  IF s = <<>> THEN <<>>
  ELSE IF Head(s) \in {SP, TAB}
       THEN LET k == CHOOSE k \in 1..(Len(s) + 1) :
                       /\ \A i \in 1..(k - 1) : s[i] \in {SP, TAB}
                       /\ (k = Len(s) + 1 \/ s[k] \notin {SP, TAB})
            IN IF k <= Len(s) /\ s[k] = NL
               THEN StripLineEnds(SubSeq(s, k, Len(s)))
               ELSE SubSeq(s, 1, k - 1) \o StripLineEnds(SubSeq(s, k, Len(s)))
       ELSE <<Head(s)>> \o StripLineEnds(Tail(s))

\* re.sub(r"\n{3,}", "\n\n", txt)
RECURSIVE SqueezeNewlines(_)
SqueezeNewlines(s) ==
  IF Len(s) >= 3 /\ s[1] = NL /\ s[2] = NL /\ s[3] = NL
  THEN SqueezeNewlines(Tail(s))
  ELSE IF s = <<>> THEN <<>> ELSE <<Head(s)>> \o SqueezeNewlines(Tail(s))

\* _extract_first_pages_text(pdf_bytes): <<>> stands for None and for ""
\* (the caller tests "not text"); miner is whether pdfminer can be imported
ExtractFirstPagesText(bytes, miner) ==
  IF ~miner \/ bytes.kind # "pdf" THEN <<>>
  ELSE Strip(SqueezeNewlines(StripLineEnds(bytes.raw)))

(***************************************************************************)
(* Narrative summarizer                                                    *)
(***************************************************************************)
\* re.sub(r"^[-*]\s*", "", ln.strip())
StripBulletPrefix(ln) ==
  LET t == Strip(ln)
  IN IF t # <<>> /\ Head(t) \in {"-", "*"} THEN LStrip(Tail(t)) ELSE t

\* lines 268-270 / 283-285: the bullets of a line-based answer
LinesToBullets(raw, cap) ==
  Take(SelectNonEmpty(MapSeq(clean_text, MapSeq(StripBulletPrefix, SplitLines(raw)))), cap)

\* line 253: the bullets of a JSON-array answer
JsonToBullets(data, cap) ==
  Take(SelectNonEmpty(MapSeq(clean_text, MapSeq(ItemValue, data))), cap)

\* _openai_bullets(text): env is the backend as the call finds it --
\*   imp: the openai package imports; init: OpenAI() can be constructed
\*   (credentials present); r1, r2, r3: the answers to the three requests.
\* [raised, some (FALSE is None), val, reqs (requests issued)]
LlmNone(reqs) == [raised |-> FALSE, some |-> FALSE, val |-> <<>>, reqs |-> reqs]
LlmSome(val, reqs) ==
  [raised |-> FALSE, some |-> val # <<>>, val |-> val, reqs |-> reqs]

LegacyChat(env, cap, reqs) ==
  IF env.r3.kind = "raise" \/ Strip(env.r3.body) = <<>>
  THEN LlmNone(Append(reqs, "chat"))
  ELSE LlmSome(LinesToBullets(Strip(env.r3.body), cap), Append(reqs, "chat"))

PlainLines(env, cap, reqs) ==
  IF env.r2.kind = "raise" \/ Strip(env.r2.body) = <<>>
  THEN LegacyChat(env, cap, Append(reqs, "lines"))
  ELSE LlmSome(LinesToBullets(Strip(env.r2.body), cap), Append(reqs, "lines"))

OpenaiBullets(env, cap) ==
  IF ~env.imp THEN LlmNone(<<>>)
  ELSE IF ~env.init THEN [raised |-> TRUE, some |-> FALSE, val |-> <<>>, reqs |-> <<>>]
  ELSE IF env.r1.kind = "raise" \/ env.r1.body = <<>>
       THEN PlainLines(env, cap, <<"json">>)
       ELSE LET data == JsonLoads(StripFences(env.r1.body))
            IN IF data.ok /\ data.isList
               THEN LlmSome(JsonToBullets(data.val, cap), <<"json">>)
               ELSE PlainLines(env, cap, <<"json">>)

(***************************************************************************)
(* Merge and cache                                                         *)
(***************************************************************************)
DefaultMaxPages == 25
DefaultModel == <<"gpt-4o-mini">>
RulesRawFloor == 36
RulesBestFloor == 24
HeuristicMaxItems == 36

\* the string hashed by _cache_path: f"{url}|{max_pages}|{model}"
\* (sha1 is taken to be injective on the strings of the model)
CachePath(url, max_pages, model) == url \o <<"|", ToString(max_pages), "|">> \o model

\* the merge loop without the test "k in seen"
RECURSIVE MergeScan_NoSeen(_, _, _, _)
MergeScan_NoSeen(src, merged, seen, cap) ==
  IF src = <<>> THEN [merged |-> merged, seen |-> seen]
  ELSE LET k == Lower(clean_text(Head(src)))
       IN IF k = <<>> THEN MergeScan_NoSeen(Tail(src), merged, seen, cap)
          ELSE IF Len(merged) + 1 >= cap
               THEN [merged |-> Append(merged, clean_text(Head(src))), seen |-> seen \cup {k}]
               ELSE MergeScan_NoSeen(Tail(src), Append(merged, clean_text(Head(src))),
                                     seen \cup {k}, cap)

\* the inner loop of lines 464-471 over one source
RECURSIVE MergeScan(_, _, _, _)
MergeScan(src, merged, seen, cap) ==
  IF src = <<>> THEN [merged |-> merged, seen |-> seen]
  ELSE LET k == Lower(clean_text(Head(src)))
       IN IF k = <<>> \/ k \in seen THEN MergeScan(Tail(src), merged, seen, cap)
          ELSE IF Len(merged) + 1 >= cap
               THEN [merged |-> Append(merged, clean_text(Head(src))), seen |-> seen \cup {k}]
               ELSE MergeScan(Tail(src), Append(merged, clean_text(Head(src))),
                              seen \cup {k}, cap)

\* the merge taking the rule-based bullets first
MergeBullets_RulesFirst(bullets_llm, rules_best, cap) ==
  LET a == MergeScan(rules_best, <<>>, {}, cap)
  IN IF Len(a.merged) >= cap THEN a.merged
     ELSE MergeScan(bullets_llm, a.merged, a.seen, cap).merged

\* lines 461-473: the narrative bullets first, then the rule-based ones
MergeBullets(bullets_llm, rules_best, cap) ==
  LET a == MergeScan(bullets_llm, <<>>, {}, cap)
  IN IF Len(a.merged) >= cap THEN a.merged
     ELSE MergeScan(rules_best, a.merged, a.seen, cap).merged

\* lines 457-477 with the loose pass run whatever SUMMARIZER_STRICT says
MergedSummary_IgnoresStrict(text, bullets_llm, c) ==
  LET rules_raw == LegistarRuleBasedBullets(text, Max(RulesRawFloor, c.cap * 3))
      rules_best == PostFilterBullets(rules_raw, Max(RulesBestFloor, c.cap * 2))
      merged == MergeBullets(bullets_llm, rules_best, c.cap)
  IN IF merged = <<>>
     THEN [ret |-> PostFilterBullets(HeuristicBullets(text, HeuristicMaxItems), c.cap),
           path |-> "loose", steps |-> <<"rules", "merge", "heuristic">>]
     ELSE [ret |-> merged, path |-> "merged", steps |-> <<"rules", "merge">>]

\* lines 457-477 once the narrative bullets are known
MergedSummary(text, bullets_llm, c) ==
  LET rules_raw == LegistarRuleBasedBullets(text, Max(RulesRawFloor, c.cap * 3))
      rules_best == PostFilterBullets(rules_raw, Max(RulesBestFloor, c.cap * 2))
      merged == MergeBullets(bullets_llm, rules_best, c.cap)
  IN IF merged = <<>> /\ ~c.strict
     THEN [ret |-> PostFilterBullets(HeuristicBullets(text, HeuristicMaxItems), c.cap),
           path |-> "loose", steps |-> <<"rules", "merge", "heuristic">>]
     ELSE [ret |-> merged, path |-> "merged", steps |-> <<"rules", "merge">>]

\* a cache file
NoFile == [exists |-> FALSE, data |-> <<>>]
FileOf(data) == [exists |-> TRUE, data |-> data]

\* the cache write storing an object in place of the list
WriteText_AsObject(file, result, how) ==
  CASE how = "ok" -> FileOf(<<JObj>>)
    [] how = "partial" -> FileOf(<<JObj>>)
    [] OTHER -> file

\* the cache write storing the list however the write ends
WriteText_AlwaysStores(file, result, how) == FileOf(JsonDumps(result))

\* cache_fp.write_text(json.dumps(result)): how is how the write ends --
\* "ok"; "denied" (directory missing, no permission: nothing is written);
\* "partial" (the file is created and the write breaks off after the "[")
WriteText(file, result, how) ==
  CASE how = "ok" -> FileOf(JsonDumps(result))
    [] how = "partial" -> FileOf(SubSeq(JsonDumps(result), 1, 1))
    [] OTHER -> file

\* the cache read testing "if data:" in place of isinstance(data, list)
CacheRead_Truthy(file) ==
  IF ~file.exists THEN [hit |-> FALSE, val |-> <<>>]
  ELSE LET data == JsonLoads(file.data)
       IN IF data.ok /\ data.isList /\ data.val # <<>>
          THEN [hit |-> TRUE, val |-> MapSeq(ItemValue, data.val)]
          ELSE [hit |-> FALSE, val |-> <<>>]

\* lines 422-428: the list a cache file yields, if it yields one
CacheRead(file) ==
  IF ~file.exists THEN [hit |-> FALSE, val |-> <<>>]
  ELSE LET data == JsonLoads(file.data)
       IN IF data.ok /\ data.isList
          THEN [hit |-> TRUE, val |-> MapSeq(ItemValue, data.val)]
          ELSE [hit |-> FALSE, val |-> <<>>]

(***************************************************************************)
(* The inputs of the model: agenda lines, documents, answers of the        *)
(* server and of the narrative backend, configurations                     *)
(***************************************************************************)
MaxCap == 3

LnWorkSession == <<"Work", SP, "Session">>
LnBudget == <<"Budget", SP, "discussion", SP, "for", SP, "FY2026">>
LnBudgetLoose == <<"budget", SP, TAB, "discussion", SP, "for", SP, "fy2026", SP>>
LnCallToOrder == <<"Call", SP, "to", SP, "Order">>
LnChannel == <<"Channel", SP, "18", SP, "broadcast">>
LnAda == <<"ADA", SP, "accommodations">>
LnResolution ==
  <<"4.", SP, "Resolution", SP, "authorizing", SP, "annexation", SP, "of", SP, "12", SP, "acres">>
LnFacebook == <<"5.", SP, "Budget", SP, "for", SP, "Facebook">>
LnLive == <<"Live", SP, "budget", SP, "hearing", SP, "on", SP, "12", SP, "items">>
LnPlain == <<"alpha", SP, "beta", SP, "gamma">>

\* a document: lines joined by newlines
RECURSIVE JoinNl(_)
JoinNl(lines) ==
  IF lines = <<>> THEN <<>>
  ELSE IF Len(lines) = 1 THEN lines[1]
       ELSE lines[1] \o <<NL>> \o JoinNl(Tail(lines))

RawTexts ==
  { JoinNl(<<LnWorkSession, LnCallToOrder, LnBudget>>),
    JoinNl(<<LnWorkSession, LnPlain, LnLive>>),
    JoinNl(<<LnWorkSession, <<"Discussion">>, LnChannel, LnPlain>>),
    JoinNl(<<LnCallToOrder, LnResolution, LnAda, <<>>, LnBudget, LnBudgetLoose>>),
    JoinNl(<<LnFacebook, LnLive>>),
    <<SP, NL, NL, TAB, NL>> }

Bodies ==
  {[kind |-> "empty", raw |-> <<>>], [kind |-> "garbled", raw |-> <<>>]}
    \cup {[kind |-> "pdf", raw |-> t] : t \in RawTexts}

UrlPdf == <<"https://city.gov/agenda", ".pdf">>
UrlView == <<"https://city.gov/view/7">>
NoUrl == <<>>
Urls == {UrlPdf, UrlView}

CtPdf == <<"application/pdf">>
CtHtml == <<"text/html">>
HeadErr == [kind |-> "error", ctype |-> <<>>]
HeadOf(ct) == [kind |-> "ok", ctype |-> ct]
GetErr == [kind |-> "error", status |-> "none", ctype |-> <<>>, body |-> NoBytes]
GetOf(st, ct) == [kind |-> "ok", status |-> st, ctype |-> ct, body |-> NoBytes]

\* what the server answers to HEAD and to GET.  UrlView is a viewer page: it
\* fails or answers with HTML; UrlPdf is a document address.
Fetches(url) ==
  { [head |-> HeadErr, get |-> GetErr],
    [head |-> HeadOf(CtHtml), get |-> GetOf("4xx", CtHtml)],
    [head |-> HeadOf(CtHtml), get |-> GetOf("2xx", CtHtml)],
    [head |-> HeadErr, get |-> GetOf("2xx", CtHtml)] }
  \cup (IF url = UrlPdf
        THEN { [head |-> HeadOf(CtPdf), get |-> GetOf("5xx", CtHtml)],
               [head |-> HeadOf(CtPdf), get |-> GetOf("2xx", CtPdf)],
               [head |-> HeadOf(CtPdf), get |-> GetOf("3xx", CtPdf)] }
        ELSE {})
NoFetch == [head |-> HeadErr, get |-> GetErr]

\* the documents tried with an answer: every document with a PDF announced
\* and served as one, an empty body and one agenda with the other answers
\* (nothing after the download reads the answer's headers)
BodiesOf(f) ==
  IF f = [head |-> HeadOf(CtPdf), get |-> GetOf("2xx", CtPdf)] THEN Bodies
  ELSE {[kind |-> "empty", raw |-> <<>>],
        [kind |-> "pdf", raw |-> JoinNl(<<LnWorkSession, LnCallToOrder, LnBudget>>)]}

Answer(body) == [kind |-> "ok", body |-> body]
Raises == [kind |-> "raise", body |-> <<>>]

LlmEnvs ==
  { [imp |-> FALSE, init |-> FALSE, r1 |-> Raises, r2 |-> Raises, r3 |-> Raises],
    [imp |-> TRUE, init |-> FALSE, r1 |-> Raises, r2 |-> Raises, r3 |-> Raises],
    [imp |-> TRUE, init |-> TRUE, r1 |-> Raises, r2 |-> Raises, r3 |-> Raises],
    [imp |-> TRUE, init |-> TRUE,
     r1 |-> Answer(<<JFence, JLB, JStr(LnBudget), JComma, JStr(LnCallToOrder), JComma,
                     JStr(LnBudgetLoose), JComma, JNum(<<"12">>), JRB, JFence>>),
     r2 |-> Raises, r3 |-> Raises],
    [imp |-> TRUE, init |-> TRUE, r1 |-> Answer(<<JLB, JRB>>),
     r2 |-> Answer(LnPlain), r3 |-> Raises],
    [imp |-> TRUE, init |-> TRUE, r1 |-> Answer(<<JObj>>),
     r2 |-> Answer(<<"-", SP>> \o LnPlain \o <<NL, "-", SP, NL, "*">> \o LnResolution),
     r3 |-> Raises],
    [imp |-> TRUE, init |-> TRUE, r1 |-> Raises, r2 |-> Answer(<<SP>>),
     r3 |-> Answer(LnPlain \o <<NL>> \o LnLive \o <<NL>> \o LnBudget)] }

WriteOutcomes == {"ok", "denied", "partial"}

\* the module-level tunables read from the environment at import (lines 61-69)
\* (SUMMARIZER_DISABLE and PDF_SUMMARY_DEBUG are varied with the other
\* tunables at their defaults, SUMMARIZER_STRICT with every cap)
Configs ==
  { c \in [disable : BOOLEAN, strict : BOOLEAN, debug : BOOLEAN, cap : 0..MaxCap] :
      /\ (c.disable \/ c.debug) => (~c.strict /\ c.cap = MaxCap)
      /\ ~(c.disable /\ c.debug) }

Keys == {CachePath(u, DefaultMaxPages, DefaultModel) : u \in Urls}

\* The calls of lines 434, 439, 454 and 457-477 on the inputs above.
\* Table(f) is f, enumerated so that each call is evaluated once.
Table(f) == f @@ <<>>
ExtractOf == Table([x \in Bodies \X BOOLEAN |-> ExtractFirstPagesText(x[1], x[2])])
Texts == {ExtractOf[<<b, TRUE>>] : b \in Bodies}
SingleOf == Table([t \in Texts |-> IsSingleTopicAgenda(t)])
OpenaiOf == Table([x \in LlmEnvs \X (0..MaxCap) |-> OpenaiBullets(x[1], x[2])])
MergedOf ==
  Table([x \in Texts \X LlmEnvs \X Configs |->
           MergedSummary(x[1], OpenaiOf[<<x[2], x[3].cap>>].val, x[3])])
\* rules_best of lines 457-458 for a text and a cap
RulesBestOf ==
  Table([x \in Texts \X (0..MaxCap) |->
           PostFilterBullets(
             LegistarRuleBasedBullets(x[1], Max(RulesRawFloor, x[2] * 3)),
             Max(RulesBestFloor, x[2] * 2))])

(***************************************************************************)
(* summarize_pdf_if_any                                                    *)
(***************************************************************************)
\* What the last call did: its argument; the path it returned by; what it
\* returned, or that it raised; the steps with an effect outside it, in
\* order; what the server answered (fetch, body); the text extracted; the
\* bullets of the narrative summarizer (llm); how
\* the cache write ended; and whether the call before it, with the same
\* argument, wrote the cache or was served from it (prev).
NoPrev == "none"
NoBody == [kind |-> "none", raw |-> <<>>]

NoCall ==
  [kind |-> "none", url |-> NoUrl, path |-> "none", ret |-> <<>>, raised |-> FALSE,
   trace |-> <<>>, fetch |-> NoFetch, body |-> NoBody, text |-> <<>>, llm |-> <<>>,
   wrote |-> "none", prev |-> NoPrev]

\* "wrote" when the call before had the same argument and wrote the cache,
\* "hit" when it was served from the cache, "failed" when its cache write
\* failed
PrevOf(url) ==
  IF last.kind = "call" /\ last.url = url /\ last.wrote = "ok" THEN "wrote"
  ELSE IF last.kind = "call" /\ last.url = url /\ last.path = "hit" THEN "hit"
  ELSE IF last.kind = "call" /\ last.url = url /\ last.wrote \in {"denied", "partial"}
       THEN "failed"
  ELSE NoPrev

Returned(url, path, ret, trace, fetch, body, text, llm, wrote) ==
  [kind |-> "call", url |-> url, path |-> path, ret |-> ret, raised |-> FALSE,
   trace |-> trace, fetch |-> fetch, body |-> body, text |-> text, llm |-> llm,
   wrote |-> wrote, prev |-> PrevOf(url)]

Raised(url, trace, fetch, body, text) ==
  [kind |-> "call", url |-> url, path |-> "raised", ret |-> <<>>, raised |-> TRUE,
   trace |-> trace, fetch |-> fetch, body |-> body, text |-> text, llm |-> <<>>,
   wrote |-> "none", prev |-> PrevOf(url)]

\* line 418 without the kill switch
Disabled_IgnoresSwitch(c, url) == url = NoUrl

\* line 418: if _DISABLE_SUMMARIZER or not url
Disabled(c, url) == c.disable \/ url = NoUrl

\* lines 442-450 and 480-499: the steps of the cache write
WriteSteps(mkdir, debug, how) ==
  (IF mkdir THEN <<"mkdir">> ELSE <<>>) \o <<"cache_write">>
    \o (IF debug /\ how = "ok" THEN <<"meta_write">> ELSE <<>>)

\* lines 438-501, the text being extracted
Summarize(url, key, fetch, body, text, t0) ==
  LET single == SingleOf[text]
      t1 == Append(t0, "single_topic")
  IN IF single # <<>>
     THEN \E how \in WriteOutcomes :
            /\ cache' = [cache EXCEPT ![key] = WriteText(cache[key], single, how)]
            /\ last' = Returned(url, "single_topic", single,
                                t1 \o WriteSteps(FALSE, cfg.debug, how),
                                fetch, body, text, <<>>, how)
     ELSE \E env \in LlmEnvs :
            LET llm == OpenaiOf[<<env, cfg.cap>>]
                t2 == (t1 \o <<"openai">>) \o llm.reqs
            IN IF llm.raised
               THEN /\ last' = Raised(url, t2, fetch, body, text)
                    /\ UNCHANGED cache
               ELSE LET m == MergedOf[<<text, env, cfg>>]
                    IN \E how \in WriteOutcomes :
                         /\ cache' = [cache EXCEPT ![key] = WriteText(cache[key], m.ret, how)]
                         /\ last' = Returned(url, m.path, m.ret,
                                             (t2 \o m.steps) \o WriteSteps(TRUE, cfg.debug, how),
                                             fetch, body, text, llm.val, how)

\* lines 430-436, the cache holding no list for the key
Fetch(url, key) ==
  \E f \in Fetches(url) :
    LET d == DownloadPdfBytes(url, f.head, f.get)
        t0 == <<"cache_read">> \o d.reqs
    IN IF ~d.ok
       THEN /\ last' = Returned(url, "fetch_failed", <<>>, t0, f, NoBody, <<>>, <<>>, "none")
            /\ UNCHANGED cache
       ELSE \E body \in BodiesOf(f) :
              LET bytes == DownloadPdfBytes(url, f.head, [f.get EXCEPT !.body = body]).bytes
              IN IF bytes.kind = "empty"
                 THEN /\ last' = Returned(url, "fetch_failed", <<>>, t0, f, body, <<>>, <<>>, "none")
                      /\ UNCHANGED cache
                 ELSE \E miner \in BOOLEAN :
                        LET text == ExtractOf[<<bytes, miner>>]
                        IN IF text = <<>>
                           THEN /\ last' = Returned(url, "no_text", <<>>, Append(t0, "extract"),
                                                    f, body, <<>>, <<>>, "none")
                                /\ UNCHANGED cache
                           ELSE Summarize(url, key, f, body, text, Append(t0, "extract"))

\* summarize_pdf_if_any(url), max_pages, model and timeout at their defaults
SummarizePdfIfAny ==
  \E url \in Urls \cup {NoUrl} :
    /\ UNCHANGED cfg
    /\ IF Disabled(cfg, url)
       THEN /\ last' = Returned(url, "disabled", <<>>, <<>>, NoFetch, NoBody, <<>>, <<>>, "none")
            /\ UNCHANGED cache
       ELSE LET key == CachePath(url, DefaultMaxPages, DefaultModel)
                rd == CacheRead(cache[key])
            IN IF rd.hit
               THEN /\ last' = Returned(url, "hit", rd.val, <<"cache_read">>,
                                        NoFetch, NoBody, <<>>, <<>>, "none")
                    /\ UNCHANGED cache
               ELSE Fetch(url, key)

\* a new process imports the module: the tunables are read again (lines
\* 61-72), the cache directory is what earlier runs left
Import ==
  /\ cfg' \in Configs
  /\ last' = NoCall
  /\ UNCHANGED cache

\* the operator clears the cache directory
ClearCache ==
  /\ cache' = [k \in Keys |-> NoFile]
  /\ last' = NoCall
  /\ UNCHANGED cfg

Init ==
  /\ cfg \in Configs
  /\ cache = [k \in Keys |-> NoFile]
  /\ last = NoCall

Next == SummarizePdfIfAny \/ Import \/ ClearCache

Spec == Init /\ [][Next]_vars

(***************************************************************************)
(* The claims                                                              *)
(***************************************************************************)
IsCall == last.kind = "call"
KeyOf(url) == CachePath(url, DefaultMaxPages, DefaultModel)
Has(trace, step) == \E i \in 1..Len(trace) : trace[i] = step
Before(trace, a, b) ==
  \E i \in 1..Len(trace) : \E j \in 1..Len(trace) : i < j /\ trace[i] = a /\ trace[j] = b
\* a bullet after whitespace normalization and case folding
Norm(b) == Lower(clean_text(b))
\* a call that computed its result from extracted text
Computed == {"single_topic", "merged", "loose"}
\* a call that gave up before there was text
GaveUp == {"fetch_failed", "no_text"}

\* C1 as stated: of two consecutive calls with the same URL and parameters (the
\* summarizer enabled, both returning), the second returns the list the first
\* returned and is served from the cache, whatever the first call's outcome.
C1_AnyOutcome ==
  [][(/\ last.kind = "call" /\ last'.kind = "call"
      /\ last'.url = last.url /\ last.url # NoUrl
      /\ ~cfg.disable /\ ~last.raised /\ ~last'.raised)
     => (last'.ret = last.ret /\ last'.path = "hit")]_vars

\* C1, amended: when a call wrote its result to the cache, or was itself served
\* from the cache, the next call with the same URL and parameters returns the
\* identical list and is served from the cache without any request; after a
\* call that gave up on the fetch or the extraction, or whose cache write
\* failed, the next call is not served from the cache.
C1_AfterWrite ==
  [][(last.kind = "call" /\ last'.kind = "call" /\ last'.url = last.url)
     => /\ (last.wrote = "ok" \/ last.path = "hit")
             => (/\ last'.ret = last.ret /\ ~last'.raised
                 /\ last'.path = "hit" /\ last'.trace = <<"cache_read">>)
        /\ (last.path \in GaveUp \/ last.wrote \in {"denied", "partial"})
             => last'.path # "hit"]_vars

\* a second call served the non-empty list the call before it had written
C1_Witness ==
  /\ IsCall /\ last.path = "hit" /\ last.prev = "wrote"
  /\ Len(last.ret) >= 2

\* C2 as stated: on every return path the returned list has at most the
\* configured maximum number of bullets.
C2_AtMostCap == (IsCall /\ ~last.raised) => Len(last.ret) <= cfg.cap

\* C3: no two bullets of a returned list are equal after whitespace
\* normalization and case folding.
C3_NoDuplicates ==
  IsCall =>
    \A i \in 1..Len(last.ret) : \A j \in 1..Len(last.ret) :
      i < j => Norm(last.ret[i]) # Norm(last.ret[j])

\* the merge met a bullet twice under different spellings and kept more than
\* one bullet
C3_Witness ==
  /\ IsCall /\ last.path = "merged" /\ Len(last.ret) >= 2
  /\ \E i \in 1..Len(last.llm) : \E j \in 1..Len(last.llm) :
       i < j /\ last.llm[i] # last.llm[j] /\ Norm(last.llm[i]) = Norm(last.llm[j])

\* C4 as stated: summarize_pdf_if_any never raises to its caller.
C4_NeverRaises == IsCall => ~last.raised

\* C5: with the kill switch set, a call returns the empty list and does
\* nothing else: no cache read, no request, no extraction, no backend call,
\* no cache write.
C5_KillSwitch ==
  (IsCall /\ cfg.disable) =>
    (/\ last.ret = <<>> /\ ~last.raised /\ last.trace = <<>>
     /\ last.path = "disabled" /\ last.wrote = "none")

\* a call with the kill switch set, for a URL whose cache entry holds bullets
C5_Witness ==
  /\ IsCall /\ cfg.disable /\ last.url = UrlPdf
  /\ cache[KeyOf(UrlPdf)].exists
  /\ Len(cache[KeyOf(UrlPdf)].data) > 2

\* the list a cache file holds, when it holds a JSON list
HoldsList(file) == file.exists /\ JsonLoads(file.data).isList
StoredList(file) == MapSeq(ItemValue, JsonLoads(file.data).val)

\* C6: a call that finds a JSON list under its key returns exactly that list,
\* even the empty one, issues no request and calls no backend; and no call
\* changes a cache entry that holds a JSON list.
C6_CacheHit ==
  [][last'.kind = "call" =>
       /\ (/\ ~cfg.disable /\ last'.url # NoUrl
           /\ HoldsList(cache[KeyOf(last'.url)]))
            => (/\ last'.ret = StoredList(cache[KeyOf(last'.url)])
                /\ ~last'.raised
                /\ last'.trace = <<"cache_read">>
                /\ last'.wrote = "none")
       /\ \A k \in Keys : HoldsList(cache[k]) => cache'[k] = cache[k]]_vars

\* a call was served an empty list from the cache
C6_Witness ==
  /\ IsCall /\ last.path = "hit" /\ last.ret = <<>>
  /\ cache[KeyOf(last.url)] = FileOf(JsonDumps(<<>>))

\* C7 as stated: every call that misses the cache and returns has written the
\* list it returns under its key.
C7_EveryMiss ==
  (IsCall /\ last.path \in Computed \cup GaveUp) =>
    (/\ Has(last.trace, "cache_write")
     /\ cache[KeyOf(last.url)] = FileOf(JsonDumps(last.ret)))

\* C7, amended: a call that misses the cache and returns a list computed from
\* extracted text has fetched, extracted, run the single-topic check, run the
\* narrative pass, the rules and the merge only when the check found no
\* single topic, and then attempted the cache write, in this order; when the
\* write succeeded the entry under its key holds exactly the returned list, a
\* single topic as a one-element list.  A call that gives up on the fetch or
\* the extraction returns the empty list and attempts no write.
C7_ComputedMiss ==
  IsCall =>
    /\ last.path \in Computed =>
         /\ Before(last.trace, "cache_read", "GET")
         /\ Before(last.trace, "GET", "extract")
         /\ Before(last.trace, "extract", "single_topic")
         /\ Before(last.trace, "single_topic", "cache_write")
         /\ last.wrote \in {"ok", "denied", "partial"}
         /\ last.wrote = "ok" => cache[KeyOf(last.url)] = FileOf(JsonDumps(last.ret))
    /\ last.path = "single_topic" =>
         /\ Len(last.ret) = 1
         /\ ~Has(last.trace, "openai") /\ ~Has(last.trace, "rules")
         /\ ~Has(last.trace, "merge")
    /\ last.path \in {"merged", "loose"} =>
         /\ Before(last.trace, "single_topic", "openai")
         /\ Before(last.trace, "openai", "rules")
         /\ Before(last.trace, "rules", "merge")
         /\ Before(last.trace, "merge", "cache_write")
    /\ last.path \in GaveUp =>
         /\ last.ret = <<>> /\ last.wrote = "none"
         /\ ~Has(last.trace, "cache_write")

\* a merge of several bullets was written to the cache under the call's key
C7_Witness ==
  /\ IsCall /\ last.path = "merged" /\ last.wrote = "ok"
  /\ Len(last.ret) >= 2
  /\ cache[KeyOf(last.url)] = FileOf(JsonDumps(last.ret))

\* the call went to the server (it was not disabled and not served from the
\* cache)
WentOut == IsCall /\ last.path \notin {"disabled", "hit"}

C9_NoBoilerplate ==
  (IsCall /\ ~last.raised) =>
    \A i \in 1..Len(last.ret) : ~DropRe(last.ret[i])

\* C10: when the single-topic detector returns a topic for the extracted
\* text, the call returns the one-element list holding it and runs neither
\* the narrative backend nor the rules; the text then has a session-type
\* phrase, the topic is one of its lines (cleaned), no boilerplate, no
\* heading, of 3 to 20 words, and has a priority keyword whenever a candidate
\* line has one.
C10_SingleTopic ==
  (IsCall /\ last.text # <<>>) =>
    LET single == IsSingleTopicAgenda(last.text)
        lines == MapSeq(clean_text, SplitLines(last.text))
        Priority(ln) ==
          \E k \in 1..Len(PriorityKeywords) : HasKeyword(ln, PriorityKeywords[k])
        Candidate(ln) ==
          /\ ln # <<>> /\ ~DropRe(ln) /\ ~SingleTopicHeadings(ln) /\ ~Procedural(ln)
          /\ 3 <= CountWords(ln) /\ CountWords(ln) <= 20
    IN single # <<>> =>
         /\ Len(single) = 1
         /\ last.ret = single /\ ~last.raised
         /\ ~Has(last.trace, "openai") /\ ~Has(last.trace, "rules")
         /\ SingleTopicHints(last.text)
         /\ \E i \in 1..Len(lines) : lines[i] = single[1]
         /\ Candidate(single[1])
         /\ (\E i \in 1..Len(lines) : Candidate(lines[i]) /\ Priority(lines[i]))
              => Priority(single[1])

\* the topic returned is a later line with a priority keyword, not the first
\* candidate
C10_Witness ==
  /\ IsCall /\ last.path = "single_topic"
  /\ last.text = JoinNl(<<LnWorkSession, LnPlain, LnLive>>)
  /\ last.ret = <<LnLive>>

(***************************************************************************)
(* The merge of lines 460-473 on its own                                   *)
(***************************************************************************)
\* answers of the backend and lines of the rules before they are cleaned
RawBullets == {LnBudget, LnBudgetLoose, LnCallToOrder, LnResolution, LnLive, <<SP>>}
RawLists ==
  {<<>>} \cup {<<a>> : a \in RawBullets} \cup {<<a, b>> : a \in RawBullets, b \in RawBullets}

\* bullets_llm as _openai_bullets returns it (lines 253, 269-270) and
\* rules_best as _post_filter_bullets returns it (line 458)
LlmLists(cap) == {Take(SelectNonEmpty(MapSeq(clean_text, raw)), cap) : raw \in RawLists}
RulesLists(cap) == {PostFilterBullets(raw, Max(RulesBestFloor, cap * 2)) : raw \in RawLists}

MergeConfigs == {c \in Configs : ~c.disable /\ ~c.debug /\ ~c.strict}

InitMerge ==
  /\ cfg \in MergeConfigs
  /\ cache = [k \in Keys |-> NoFile]
  /\ \E llm \in LlmLists(cfg.cap) : \E rules \in RulesLists(cfg.cap) :
       last = [kind |-> "merge_in", llm |-> llm, rules |-> rules]

\* lines 460-473 applied to bullets_llm and rules_best
ApplyMerge ==
  /\ last.kind = "merge_in"
  /\ last' = [kind |-> "merge", llm |-> last.llm, rules |-> last.rules,
              out |-> MergeBullets(last.llm, last.rules, cfg.cap)]
  /\ UNCHANGED <<cfg, cache>>

NextMerge == ApplyMerge

SpecMerge == InitMerge /\ [][NextMerge]_vars

\* the elements of s at the positions in P, in order
RECURSIVE Restrict(_, _, _)
Restrict(s, P, i) ==
  IF i > Len(s) THEN <<>>
  ELSE (IF i \in P THEN <<s[i]>> ELSE <<>>) \o Restrict(s, P, i + 1)

\* C11: the merged list is the narrative bullets followed by the rule-based
\* bullets, each cleaned, in their order, without those whose lower-case form
\* is empty or occurred earlier, cut after the configured maximum.
C11_MergeOrder ==
  last.kind = "merge" =>
    LET all == MapSeq(clean_text, last.llm \o last.rules)
        first == {p \in 1..Len(all) :
                    /\ Lower(all[p]) # <<>>
                    /\ \A q \in 1..(p - 1) : Lower(all[q]) # Lower(all[p])}
        kept == Restrict(all, first, 1)
    IN /\ last.out = SubSeq(kept, 1, IF Len(kept) < cfg.cap THEN Len(kept) ELSE cfg.cap)
       /\ Len(last.out) <= cfg.cap

\* a merge took bullets of both sources, skipped a repeated one and stopped at
\* the maximum with a rule-based bullet left over
C11_Witness ==
  /\ last.kind = "merge" /\ cfg.cap >= 2 /\ Len(last.out) = cfg.cap
  /\ last.llm # <<>> /\ last.rules # <<>>
  /\ last.out[1] = last.llm[1]
  /\ last.out[cfg.cap] \notin {last.llm[i] : i \in 1..Len(last.llm)}
  /\ \E i \in 1..Len(last.llm) : \E j \in 1..Len(last.rules) :
       Lower(last.llm[i]) = Lower(last.rules[j])
  /\ last.rules[Len(last.rules)] \notin {last.out[i] : i \in 1..Len(last.out)}

\* the merge of the narrative bullets of the last call with the rule-based
\* bullets of its text
MergeOfLast == MergeBullets(last.llm, RulesBestOf[<<last.text, cfg.cap>>], cfg.cap)

\* C12: a call that reaches the merge runs the loose heuristic pass exactly
\* when the merge is empty and SUMMARIZER_STRICT is not set; with it set and
\* an empty merge the call returns the empty list; a non-empty merge is
\* returned unchanged.
C12_LooseFallback ==
  (IsCall /\ Has(last.trace, "merge")) =>
    /\ Has(last.trace, "heuristic") <=> (MergeOfLast = <<>> /\ ~cfg.strict)
    /\ (MergeOfLast = <<>> /\ cfg.strict) => last.ret = <<>>
    /\ MergeOfLast # <<>> => last.ret = MergeOfLast
    /\ ~last.raised

\* SUMMARIZER_STRICT kept the loose pass from a text in which it finds bullets
C12_Witness ==
  /\ IsCall /\ cfg.strict /\ Has(last.trace, "merge")
  /\ MergeOfLast = <<>> /\ last.ret = <<>>
  /\ last.text = JoinNl(<<LnFacebook, LnLive>>)

\* the list a call computes from the extracted text and the narrative
\* bullets, whatever becomes of the cache write
ResultOf(path, text, llm, c) ==
  IF path = "single_topic" THEN SingleOf[text] ELSE MergedSummary(text, llm, c).ret

FailedWrites == {"denied", "partial"}

\* C16: a call whose cache write fails still returns, without raising, the
\* list it computed (the one a successful write would have stored), leaves no
\* list under its key, and the next call with the same key is not served from
\* the cache: it goes to the server again.
C16_FailedWrite ==
  [][/\ (last'.kind = "call" /\ last'.wrote \in FailedWrites) =>
          /\ ~last'.raised
          /\ last'.path \in Computed
          /\ last'.ret = ResultOf(last'.path, last'.text, last'.llm, cfg)
          /\ ~HoldsList(cache'[KeyOf(last'.url)])
     /\ (/\ last.kind = "call" /\ last.wrote \in FailedWrites
         /\ last'.kind = "call" /\ last'.url = last.url) =>
          /\ last'.path # "hit"
          /\ Has(last'.trace, "HEAD") \/ Has(last'.trace, "GET")]_vars

\* after a call whose cache write failed, the next call for the same URL
\* fetched the document again and returned bullets, its own write denied
C16_Witness ==
  /\ IsCall /\ last.prev = "failed" /\ last.wrote = "denied"
  /\ Has(last.trace, "GET") /\ last.path = "merged" /\ Len(last.ret) >= 2
  /\ ~cache[KeyOf(last.url)].exists

(***************************************************************************)
(* The cache key of lines 403-405 on its own.  Here every token is one     *)
(* character, so that two keys are the same string exactly when they are   *)
(* the same sequence.                                                      *)
(***************************************************************************)
MaxKeyPages == 2

KeyUrls == {<<"a">>, <<"a", "|", "1">>, <<"c">>, <<"a", "|", "2">>}
KeyModels == {<<"b">>, <<"2", "|", "b">>, <<"d">>, <<"1", "|", "b">>}
KeyRequests == [url : KeyUrls, max_pages : 1..MaxKeyPages, model : KeyModels]

InitKey ==
  /\ cfg \in {c \in Configs : ~c.disable /\ ~c.debug /\ ~c.strict /\ c.cap = MaxCap}
  /\ cache = [k \in Keys |-> NoFile]
  /\ \E a \in KeyRequests : \E b \in KeyRequests :
       last = [kind |-> "keys_in", a |-> a, b |-> b]

\* _cache_path for two requests
ApplyKey ==
  /\ last.kind = "keys_in"
  /\ last' = [kind |-> "keys", a |-> last.a, b |-> last.b,
              ka |-> CachePath(last.a.url, last.a.max_pages, last.a.model),
              kb |-> CachePath(last.b.url, last.b.max_pages, last.b.model)]
  /\ UNCHANGED <<cfg, cache>>

NextKey == ApplyKey

SpecKey == InitKey /\ [][NextKey]_vars

\* C13 as stated: the strings hashed for two requests are the same exactly
\* when the requests agree on URL, max-pages and model.
C13_KeyInjective ==
  last.kind = "keys" => (last.ka = last.kb <=> last.a = last.b)

\* ---------------------------------------------------------------------------
\* The orchestrator (main.py) and the site adapters it calls
\* ---------------------------------------------------------------------------

\* A date is <<year, month, day>>; today in America/Denver is fixed for a run.
Today == <<2026, 11, 4>>

LeapYear(y) == y % 4 = 0 /\ (y % 100 # 0 \/ y % 400 = 0)

DaysIn(y, m) ==
  IF m \in {4, 6, 9, 11} THEN 30
  ELSE IF m = 2 THEN (IF LeapYear(y) THEN 29 ELSE 28)
  ELSE 31

\* datetime.strptime / dateutil accept exactly the dates of the calendar.
RealDate(d) == d[2] \in 1..12 /\ d[3] >= 1 /\ d[3] <= DaysIn(d[1], d[2])

\* date < date, and equally "<" on two zero-padded YYYY-MM-DD strings.
DateLt(a, b) ==
  \/ a[1] < b[1]
  \/ a[1] = b[1] /\ a[2] < b[2]
  \/ a[1] = b[1] /\ a[2] = b[2] /\ a[3] < b[3]

\* Date strings: "%Y-%m-%d" zero padded, "%A, %B %-d, %Y", the empty string,
\* and None.
IsoText(d) == [form |-> "iso", ymd |-> d]
LongText(d) == [form |-> "long", ymd |-> d]
EmptyText == [form |-> "empty"]
NoText == [form |-> "none"]

make_meeting(city_or_body, meeting_type, date, start_time_local, status, location, agenda_url, agenda_summary, source) ==
  [city_or_body |-> city_or_body, meeting_type |-> meeting_type, date |-> date,
   start_time_local |-> start_time_local, status |-> status,
   location |-> location, agenda_url |-> agenda_url,
   agenda_summary |-> agenda_summary, source |-> source]

\* What the site answers to an adapter: a failed request (raise_for_status,
\* network error) or the listings of the page.
AdapterError == [ok |-> FALSE]
Listing(items) == [ok |-> TRUE, items |-> items]

\* An adapter call raises or returns a list of records.
Raise == [raised |-> TRUE, out |-> <<>>]
Return(out) == [raised |-> FALSE, out |-> out]

\* parse_legistar: events of the Legistar API; date is EventDate before "T".
LegistarEvents ==
  {[wanted |-> TRUE, date |-> t] :
     t \in {EmptyText, IsoText(<<2026, 11, 4>>), IsoText(<<2026, 12, 9>>),
            IsoText(<<2026, 11, 3>>), IsoText(<<2026, 11, 31>>)}}
  \cup {[wanted |-> FALSE, date |-> IsoText(<<2026, 12, 9>>)]}

LegistarRecords(ev) ==
  IF ~ev.wanted THEN <<>>
  ELSE IF ev.date = EmptyText THEN <<>>
  ELSE IF ~RealDate(ev.date.ymd) THEN <<>>
  ELSE IF DateLt(ev.date.ymd, Today) THEN <<>>
  ELSE <<make_meeting("Colorado Springs", "City Council Meeting", ev.date,
                      "Time TBD", "Scheduled", "None", "None", <<>>,
                      "legistar")>>

parse_legistar(answer) ==
  IF ~answer.ok THEN Raise
  ELSE IF answer.items = <<>> THEN Return(<<>>)
  ELSE Return(LegistarRecords(answer.items[1]))

\* parse_bocc = parse_epc.  A link of the "nextmeetings" box is given by the
\* name in its text (title), the three numbers matched by DT_RE (mdy, <<>>
\* without a match) and its detail page: whether the request succeeds and the
\* texts of the h1/h2/h3/div/span tags in document order.
TBocc == <<"Board", SP, "of", SP, "County", SP, "Commissioners">>
TBoccMeeting == TBocc \o <<SP, "Meeting">>
TBoccWork == TBocc \o <<SP, "Work", SP, "Session">>
TBoccStudy == TBocc \o <<SP, "-", SP, "Study", SP, "Session">>
TBoccRetreat == <<"Retreat", SP, "-", SP>> \o TBocc
TWorkshop == <<"Budget", SP, "Workshop">>

EpcDetail(ok, heads) == [ok |-> ok, heads |-> heads]
EpcLink(title, mdy, detail) == [title |-> title, mdy |-> mdy, detail |-> detail]

EpcLinks ==
  {EpcLink(TBocc, d, EpcDetail(TRUE, <<TBocc>>)) :
     d \in {<<>>, <<11, 4, 2026>>, <<12, 9, 2026>>, <<11, 3, 2026>>,
            <<11, 31, 2026>>, <<13, 1, 2026>>}}
  \cup {EpcLink(TBoccWork, <<12, 9, 2026>>, EpcDetail(TRUE, <<TBoccWork>>)),
        EpcLink(TBocc, <<12, 9, 2026>>, EpcDetail(FALSE, <<>>)),
        EpcLink(TBocc, <<12, 9, 2026>>, EpcDetail(TRUE, <<TBoccWork>>))}

\* ALLOW_TITLE_RE.search(t): \bBoard of County Commissioners\b, re.I
AllowTitle(t) == HasPhrase(Lower(t), Lower(TBocc))

\* The number of tokens a match of BLOCK_TITLE_RE takes at l[i], 0 without a
\* match: \bWork\s*Session | Study\s*Session | Workshop | Retreat\b, re.I, on
\* the words of the vocabulary.
BlockLen(l, i) ==
  IF l[i] \in {"workshop", "retreat"} THEN 1
  ELSE IF l[i] \in {"work", "study"}
    THEN LET after == {j \in (i + 1)..Len(l) : ~IsWs(l[j])} IN
         IF after = {} THEN 0
         ELSE LET j == CHOOSE k \in after : \A o \in after : k <= o IN
              IF l[j] = "session" THEN j - i + 1 ELSE 0
  ELSE 0

\* BLOCK_TITLE_RE.search(t)
BlockTitle(t) == \E i \in 1..Len(t) : BlockLen(Lower(t), i) > 0

RECURSIVE BlockSubFrom(_, _)
\* BLOCK_TITLE_RE.sub("", t)
BlockSubFrom(t, i) ==
  IF i > Len(t) THEN <<>>
  ELSE IF BlockLen(Lower(t), i) > 0 THEN BlockSubFrom(t, i + BlockLen(Lower(t), i))
  ELSE <<t[i]>> \o BlockSubFrom(t, i + 1)

RECURSIVE StripDashes(_)
\* t.strip(...) of blanks, hyphens, dashes and colons; the titles of the
\* model hold no dash other than "-"
StripDashes(t) ==
  IF t # <<>> /\ Head(t) \in {SP, "-", ":"} THEN StripDashes(Tail(t))
  ELSE IF t # <<>> /\ t[Len(t)] \in {SP, "-", ":"}
       THEN StripDashes(SubSeq(t, 1, Len(t) - 1))
  ELSE t

\* texts.sort(key=len); texts[0]: the first of the shortest texts that hold
\* the allowed name (<<>> when no text holds it)
ShortestAllowed(heads) ==
  LET idx == {i \in 1..Len(heads) : AllowTitle(heads[i])} IN
  IF idx = {} THEN <<>>
  ELSE heads[CHOOSE i \in idx :
               \A j \in idx : Width(heads[i]) < Width(heads[j])
                              \/ (Width(heads[i]) = Width(heads[j]) /\ i <= j)]

\* lines 104-121: the block words are removed from the title that is picked
MeetingTitleFromDetail(heads) ==
  IF ShortestAllowed(heads) = <<>> THEN TBocc
  ELSE Truncate(StripDashes(BlockSubFrom(ShortestAllowed(heads), 1)), 150)

\* f"{yyyy:04d}-{mm:02d}-{dd:02d}" of the three numbers, whatever they are.
ParseListDatetime(mdy) ==
  IF mdy = <<>> THEN NoText ELSE IsoText(<<mdy[3], mdy[1], mdy[2]>>)

DiscoverFromHomepage(a) ==
  IF ~AllowTitle(a.title) \/ BlockTitle(a.title) THEN <<>>
  ELSE LET iso == ParseListDatetime(a.mdy) IN
       IF iso = NoText THEN <<>>
       ELSE IF DateLt(iso.ymd, Today) THEN <<>>
       ELSE <<make_meeting("El Paso County", TBocc,
                           iso, "9:00 AM", "Scheduled", "None", "None", <<>>,
                           "agendasuite")
              @@ [provider |-> "AgendaSuite", url |-> "detail"]>>

RECURSIVE EpcWalk(_, _, _, _)
\* lines 190-214: the loop over the discovered items; from[j] is the link
\* that accepted[j] came from
EpcWalk(links, i, accepted, from) ==
  IF i > Len(links) THEN [out |-> accepted, from |-> from]
  ELSE LET items == DiscoverFromHomepage(links[i])
           t == MeetingTitleFromDetail(links[i].detail.heads)
       IN IF items = <<>> \/ ~links[i].detail.ok \/ BlockTitle(t)
          THEN EpcWalk(links, i + 1, accepted, from)
          ELSE EpcWalk(links, i + 1,
                 Append(accepted, [items[1] EXCEPT !.meeting_type = t]
                                    @@ [tz |-> "America/Denver"]),
                 Append(from, i))

parse_epc(answer) ==
  IF ~answer.ok THEN Raise ELSE Return(EpcWalk(answer.items, 1, <<>>, <<>>).out)

\* parse_pueblo: a listing with the date its text parses to, or <<>>.
PuebloListings ==
  {[date |-> d] : d \in {<<>>, <<2026, 11, 4>>, <<2026, 12, 9>>, <<2026, 11, 3>>}}

parse_pueblo(answer) ==
  IF ~answer.ok THEN Raise
  ELSE IF answer.items = <<>> THEN Return(<<>>)
  ELSE LET d == answer.items[1].date IN
       IF d = <<>> THEN Return(<<>>)
       ELSE IF DateLt(d, Today) THEN Return(<<>>)
       ELSE Return(<<make_meeting("Pueblo", "City Council Meeting", IsoText(d),
                                  "Time TBD", "Scheduled", "None", "None", <<>>,
                                  "civicclerk")>>)

\* parse_trinidad: an event of the month page; modal is the detail request,
\* start the date of start_dt that _parse_modal found (<<>> without one).
TrinidadEvents ==
  {[modal |-> "ok", start |-> d] :
     d \in {<<>>, <<2026, 11, 4>>, <<2026, 12, 9>>, <<2026, 11, 3>>}}
  \cup {[modal |-> "error", start |-> <<>>]}

TrinidadMeeting(ev) ==
  [city |-> "Trinidad, CO", title |-> "City Council Regular Meeting",
   start_dt |-> IF ev.start = <<>> THEN NoText ELSE IsoText(ev.start),
   end_dt |-> "None",
   date_str |-> IF ev.start = <<>> THEN EmptyText ELSE LongText(ev.start),
   location |-> "None", agenda_text |-> "body", agenda_bullets |-> <<>>,
   source_url |-> "detail", event_id |-> "id"]

parse_trinidad(answer) ==
  IF ~answer.ok THEN Raise
  ELSE IF answer.items = <<>> THEN Return(<<>>)
  ELSE LET ev == answer.items[1] IN
       IF ev.modal # "ok" THEN Return(<<>>)
       ELSE IF ev.start # <<>> /\ DateLt(ev.start, Today) THEN Return(<<>>)
       ELSE IF TrinidadMeeting(ev).start_dt = NoText THEN Return(<<>>)
       ELSE Return(<<TrinidadMeeting(ev)>>)

\* parse_alamosa: a detail page of the portal, given by what the helpers read
\* from it: mtype is _classify_meeting ("None" when it is no council regular
\* or special meeting), date and time are _parse_date_time (the date is read
\* by strptime, so it is a calendar date or missing; the time is a matched
\* clock time or "Time TBD"), pdf is _extract_pdf_from_detail(page) or None,
\* and sum is what summarize_pdf_if_any does with that PDF when it goes on.
AlamosaPage(mtype, date, time, pdf, sum) ==
  [mtype |-> mtype, date |-> date, time |-> time, pdf |-> pdf, sum |-> sum]

AlamosaRegular == "City Council Regular Meeting"
AlamosaSpecial == "City Council Special Meeting"

AlamosaPages ==
  {AlamosaPage(AlamosaRegular, d, "Time TBD", "None", "empty") :
     d \in {<<>>, <<2026, 11, 4>>, <<2026, 12, 9>>, <<2026, 11, 3>>}}

\* status="Scheduled" if pdf_url else "Scheduled (no agenda yet)", always
\* "Scheduled"
AlamosaStatus_Always(pdf) == "Scheduled"

\* line 306: status="Scheduled" if pdf_url else "Scheduled (no agenda yet)"
AlamosaStatus(pdf) ==
  IF pdf # "None" THEN "Scheduled" ELSE "Scheduled (no agenda yet)"

\* line 293: key = (date_iso, time_local or "", mtype, pdf_url or "")
AlamosaKey(pg) ==
  <<IsoText(pg.date), pg.time, pg.mtype, IF pg.pdf = "None" THEN "" ELSE pg.pdf>>

\* line 298: agenda_summary = summarize_pdf_if_any(pdf_url); net says whether
\* the call went to the network
AlamosaSummary(c, pg) ==
  IF Disabled(c, IF pg.pdf = "None" THEN NoUrl ELSE <<pg.pdf>>)
  THEN [raised |-> FALSE, ret |-> <<>>, net |-> FALSE]
  ELSE IF pg.sum = "raise" THEN [raised |-> TRUE, ret |-> <<>>, net |-> TRUE]
  ELSE IF pg.sum = "hit" THEN [raised |-> FALSE, ret |-> <<LnBudget>>, net |-> FALSE]
  ELSE IF pg.sum = "bullets" THEN [raised |-> FALSE, ret |-> <<LnBudget>>, net |-> TRUE]
  ELSE [raised |-> FALSE, ret |-> <<>>, net |-> TRUE]

RECURSIVE AlamosaWalk(_, _, _, _, _, _)
\* lines 254-315: the walk over the detail pages; calls[j] is the summarizer
\* call made for items[j]
AlamosaWalk(c, pages, i, items, seen, calls) ==
  IF i > Len(pages) THEN [raised |-> FALSE, out |-> items, calls |-> calls]
  ELSE LET pg == pages[i] IN
    IF pg.mtype = "None" \/ pg.date = <<>> \/ DateLt(pg.date, Today)
      THEN AlamosaWalk(c, pages, i + 1, items, seen, calls)
    ELSE IF AlamosaKey(pg) \in seen
      THEN AlamosaWalk(c, pages, i + 1, items, seen, calls)
    ELSE LET sm == AlamosaSummary(c, pg) IN
      IF sm.raised THEN [raised |-> TRUE, out |-> <<>>, calls |-> <<>>]
      ELSE AlamosaWalk(c, pages, i + 1,
             Append(items, make_meeting("City of Alamosa", pg.mtype, IsoText(pg.date), pg.time, AlamosaStatus(pg.pdf), "None", pg.pdf, sm.ret, "diligent")),
             seen \cup {AlamosaKey(pg)},
             Append(calls, [url |-> pg.pdf, net |-> sm.net]))

parse_alamosa(answer) ==
  IF ~answer.ok THEN Raise
  ELSE LET w == AlamosaWalk(cfg, answer.items, 1, <<>>, {}, <<>>) IN
       IF w.raised THEN Raise ELSE Return(w.out)

\* parse_salida: a tile of the portal. text is what _parse_date is given: a
\* written date, a text holding only a bare number, or a text without either.
SalidaTiles ==
  {[text |-> t, council |-> TRUE, agenda |-> "none"] :
     t \in {[kind |-> "plain"], [kind |-> "number", n |-> 7],
            [kind |-> "dated", ymd |-> <<2026, 11, 3>>],
            [kind |-> "dated", ymd |-> <<2026, 12, 9>>]}}
  \cup {[text |-> [kind |-> "dated", ymd |-> <<2026, 12, 9>>], council |-> c, agenda |-> a] :
          c \in BOOLEAN, a \in {"pdf", "pdf_txt", "error"}}

\* dateutil's fuzzy parse fills what the text lacks from today's date.
SalidaParseDate(text) ==
  IF text.kind = "dated" THEN text.ymd
  ELSE IF text.kind = "number" /\ RealDate(<<Today[1], Today[2], text.n>>)
       THEN <<Today[1], Today[2], text.n>>
  ELSE <<>>

ScanTile(tile) ==
  LET iso == SalidaParseDate(tile.text) IN
  [city |-> "Salida", provider |-> "CivicClerk", title |-> tile.council,
   date |-> IF iso = <<>> THEN EmptyText ELSE IsoText(iso),
   url |-> "event", source |-> "portal"]

SalidaKept(m, only_today_fwd, only_council) ==
  /\ only_today_fwd => (m.date # EmptyText /\ ~DateLt(m.date.ymd, Today))
  /\ only_council => m.title

parse_salida(answer, only_today_fwd, only_council) ==
  IF ~answer.ok THEN Raise
  ELSE IF answer.items = <<>> THEN Return(<<>>)
  ELSE LET tile == answer.items[1]
           m == ScanTile(tile) IN
       IF ~SalidaKept(m, only_today_fwd, only_council) THEN Return(<<>>)
       ELSE IF tile.agenda = "error" THEN Raise
       ELSE IF tile.agenda = "pdf" THEN Return(<<m @@ [agenda_url |-> "pdf"]>>)
       ELSE IF tile.agenda = "pdf_txt"
            THEN Return(<<m @@ [agenda_url |-> "pdf", agenda_text_url |-> "txt"]>>)
       ELSE Return(<<m>>)

AnswersOf(listings) ==
  {AdapterError, Listing(<<>>)} \cup {Listing(<<x>>) : x \in listings}

\* one try block around all the adapters
Extend_DropsAll(meetings, parsed) ==
  IF parsed.raised THEN <<>> ELSE meetings \o parsed.out

\* try: meetings.extend(parse_x()) except Exception: print(...)
Extend(meetings, parsed) ==
  IF parsed.raised THEN meetings ELSE meetings \o parsed.out

AtStep(pc) == last.kind = "run" /\ last.pc = pc

Stepped(next, parsed) ==
  [last EXCEPT !.pc = next, !.meetings = Extend(last.meetings, parsed),
               !.log = Append(last.log, [adapter |-> last.pc, raised |-> parsed.raised,
                                         out |-> IF parsed.raised THEN <<>> ELSE parsed.out])]

RunLegistar ==
  /\ AtStep("legistar")
  /\ \E a \in AnswersOf(LegistarEvents) : last' = Stepped("bocc", parse_legistar(a))
  /\ UNCHANGED <<cfg, cache>>

RunBocc ==
  /\ AtStep("bocc")
  /\ \E a \in AnswersOf(EpcLinks) : last' = Stepped("pueblo", parse_epc(a))
  /\ UNCHANGED <<cfg, cache>>

RunPueblo ==
  /\ AtStep("pueblo")
  /\ \E a \in AnswersOf(PuebloListings) : last' = Stepped("trinidad", parse_pueblo(a))
  /\ UNCHANGED <<cfg, cache>>

RunTrinidad ==
  /\ AtStep("trinidad")
  /\ \E a \in AnswersOf(TrinidadEvents) : last' = Stepped("alamosa", parse_trinidad(a))
  /\ UNCHANGED <<cfg, cache>>

RunAlamosa ==
  /\ AtStep("alamosa")
  /\ \E a \in AnswersOf(AlamosaPages) : last' = Stepped("salida", parse_alamosa(a))
  /\ UNCHANGED <<cfg, cache>>

RunSalida ==
  /\ AtStep("salida")
  /\ \E a \in AnswersOf(SalidaTiles) : \E fwd \in BOOLEAN : \E council \in BOOLEAN :
       last' = Stepped("write", parse_salida(a, fwd, council))
  /\ UNCHANGED <<cfg, cache>>

\* json.dump({"last_checked_mt": ..., "meetings": meetings}) to meetings.json
WriteMeetings ==
  /\ AtStep("write")
  /\ \E ok \in BOOLEAN :
       last' = IF ok
               THEN [last EXCEPT !.pc = "written",
                                 !.file = [last_checked_mt |-> Today,
                                           meetings |-> last.meetings]]
               ELSE [last EXCEPT !.pc = "raised"]
  /\ UNCHANGED <<cfg, cache>>

InitRun ==
  /\ cfg \in {c \in Configs : ~c.disable /\ ~c.debug /\ ~c.strict /\ c.cap = MaxCap}
  /\ cache = [k \in Keys |-> NoFile]
  /\ last = [kind |-> "run", pc |-> "legistar", meetings |-> <<>>, log |-> <<>>,
             file |-> [last_checked_mt |-> <<>>, meetings |-> <<>>]]

NextRun ==
  \/ RunLegistar
  \/ RunBocc
  \/ RunPueblo
  \/ RunTrinidad
  \/ RunAlamosa
  \/ RunSalida
  \/ WriteMeetings

SpecRun == InitRun /\ [][NextRun]_vars

MeetingFields ==
  {"city_or_body", "meeting_type", "date", "start_time_local", "status",
   "location", "agenda_url", "agenda_summary", "source"}

\* C14 as stated: every record of the meetings list written by the
\* orchestrator has exactly the nine fields of make_meeting, whichever adapter
\* emitted it. The El Paso County, Trinidad and Salida adapters break it.
C14_NineFields ==
  (last.kind = "run" /\ last.pc = "written") =>
    \A i \in 1..Len(last.file.meetings) :
      DOMAIN last.file.meetings[i] = MeetingFields

\* C15 as stated: every record emitted by an adapter carries a date that is a
\* real calendar date in YYYY-MM-DD form, not earlier than today; a listing
\* whose date cannot be parsed is never emitted with an empty or impossible
\* date.
C15_RealFutureDate ==
  last.kind = "run" =>
    \A i \in 1..Len(last.meetings) :
      LET r == last.meetings[i] IN
      /\ "date" \in DOMAIN r
      /\ r.date # EmptyText
      /\ r.date.form = "iso"
      /\ RealDate(r.date.ymd)
      /\ ~DateLt(r.date.ymd, Today)

\* ---------------------------------------------------------------------------
\* The rule-based extractor on its own
\* ---------------------------------------------------------------------------
SmallLimit == 2

LnCallWide == <<"Call", SP, SP, "to", SP, "Order", SP, "12">>
LnColonHead == <<"4.", SP, "$5", SP, "items:">>

RECURSIVE Rep(_, _)
Rep(s, n) == IF n = 0 THEN <<>> ELSE s \o Rep(s, n - 1)

\* two long lines that agree on their first 280 characters
LongPrefix == Rep(LnBudget \o <<SP>>, 7) \o Rep(<<"Resolution", SP>>, 7)
LnLongAcres == LongPrefix \o <<"acres">>
LnLongItems == LongPrefix \o <<"items">>

RuleLines ==
  {<<>>, LnBudget, LnBudgetLoose, LnCallToOrder, LnCallWide, LnResolution,
   LnFacebook, LnLive, LnPlain, LnColonHead}

RuleTexts ==
  {JoinNl(ls) : ls \in {<<>>} \cup {<<a>> : a \in RuleLines}
                   \cup {<<a, b>> : a \in RuleLines, b \in RuleLines}
                   \cup {<<a, b, c>> : a \in RuleLines, b \in RuleLines, c \in RuleLines}}
  \cup {JoinNl(<<LnLongAcres, LnLongItems>>),
        JoinNl(<<LnResolution, LnBudget, <<>>, LnLive>>),
        JoinNl(<<LnColonHead, LnCallToOrder, LnBudget, LnFacebook>>)}

RuleLimits == {SmallLimit, RulesRawFloor}

\* the iterations of the while loop of lines 308-342: the line each one
\* starts at, the line the next one starts at, and the bullet it appends
RECURSIVE RuleSteps(_, _, _, _)
RuleSteps(lines, i, count, limit) ==
  IF i > Len(lines) \/ count >= limit THEN <<>>
  ELSE LET ln == lines[i]
       IN IF IsNoise(ln)
          THEN <<[i |-> i, next |-> i + 1, kind |-> "noise", bullet |-> <<>>]>>
                 \o RuleSteps(lines, i + 1, count, limit)
          ELSE IF SectionStart(ln)
               THEN LET c == CollectChunk(lines, i + 1, <<>>)
                        b == SectionBullet(ln, c.parts)
                    IN <<[i |-> i, next |-> c.j, kind |-> "section", bullet |-> b]>>
                         \o RuleSteps(lines, c.j, count + Len(b), limit)
               ELSE LET b == IF PositiveSignals(ln) \/ HasDigit(ln)
                             THEN <<clean_text(ln)>> ELSE <<>>
                    IN <<[i |-> i, next |-> i + 1, kind |-> "line", bullet |-> b]>>
                         \o RuleSteps(lines, i + 1, count + Len(b), limit)

InitRules ==
  /\ cfg \in {c \in Configs : ~c.disable /\ ~c.debug /\ ~c.strict /\ c.cap = MaxCap}
  /\ cache = [k \in Keys |-> NoFile]
  /\ \E text \in RuleTexts : \E limit \in RuleLimits :
       last = [kind |-> "rules_in", text |-> text, limit |-> limit]

ApplyRules ==
  /\ last.kind = "rules_in"
  /\ last' = [kind |-> "rules", text |-> last.text, limit |-> last.limit,
              lines |-> MapSeq(Strip, SplitLines(last.text)),
              steps |-> RuleSteps(MapSeq(Strip, SplitLines(last.text)), 1, 0, last.limit),
              out |-> LegistarRuleBasedBullets(last.text, last.limit)]
  /\ UNCHANGED <<cfg, cache>>

NextRules == ApplyRules

SpecRules == InitRules /\ [][NextRules]_vars

\* C17 as stated: the rule-based extractor never outputs a bullet that matches
\* the drop filter, and returns the empty list for a text whose every line
\* matches the filter.
C17_NoDroppedBullet ==
  last.kind = "rules" =>
    /\ \A i \in 1..Len(last.out) : ~DropRe(last.out[i])
    /\ (\A i \in 1..Len(last.lines) : DropRe(last.lines[i])) => last.out = <<>>

\* what a line contributes: its text, a header without its number
LineText(ln) == Lower(clean_text(IF SectionStart(ln) THEN SectionHead(ln) ELSE ln))

\* C18 as stated: every line that is not boilerplate and matches a positive
\* signal or holds a digit or currency sign is found in the output, as a
\* bullet or inside the bullet of its section, when the output is below the
\* item limit.
C18_SignalLinesKept ==
  (last.kind = "rules" /\ Len(last.out) < last.limit) =>
    \A i \in 1..Len(last.lines) :
      LET ln == last.lines[i] IN
      (~IsNoise(ln) /\ (PositiveSignals(ln) \/ HasDigit(ln))) =>
        \E k \in 1..Len(last.out) : HasPhrase(Lower(last.out[k]), LineText(ln))

\* C19 as stated: no two bullets of the extractor's output are equal ignoring
\* case, each bullet being cut to the maximum bullet length.
C19_NoDuplicateBullets ==
  last.kind = "rules" =>
    \A i \in 1..Len(last.out) : \A j \in 1..Len(last.out) :
      i < j => Lower(last.out[i]) # Lower(last.out[j])

\* the bullets of the iterations, in order
RECURSIVE StepBullets(_)
StepBullets(steps) ==
  IF steps = <<>> THEN <<>> ELSE Head(steps).bullet \o StepBullets(Tail(steps))

\* the first line after i that is a numbered-section header (Len + 1 without)
NextHeader(lines, i) ==
  CHOOSE k \in (i + 1)..(Len(lines) + 1) :
    /\ k = Len(lines) + 1 \/ SectionStart(lines[k])
    /\ \A m \in (i + 1)..(k - 1) : ~SectionStart(lines[m])

\* the first line after i that is blank or a numbered-section header
ChunkEnd(lines, i) ==
  CHOOSE k \in (i + 1)..(Len(lines) + 1) :
    /\ k = Len(lines) + 1 \/ lines[k] = <<>> \/ SectionStart(lines[k])
    /\ \A m \in (i + 1)..(k - 1) : lines[m] # <<>> /\ ~SectionStart(lines[m])

NotDropped(ln) == ~DropRe(ln)
NotNoise(ln) == ~IsNoise(ln)

\* the bullet a candidate becomes
BulletOf(candidate) ==
  IF candidate # <<>> /\ ~DropRe(candidate)
     /\ (PositiveSignals(candidate) \/ HasDigit(candidate))
  THEN <<clean_text(candidate)>> ELSE <<>>

\* C20 as stated: an iteration that starts at a numbered-section header takes
\* the header text and all following lines that are not boilerplate, up to the
\* next numbered-section header, as one candidate, and the next iteration
\* starts at that header.
C20_UpToNextHeader ==
  last.kind = "rules" =>
    \A n \in 1..Len(last.steps) :
      LET s == last.steps[n]
          end == NextHeader(last.lines, s.i)
          parts == SelectSeq(SubSeq(last.lines, s.i + 1, end - 1), NotNoise)
      IN SectionStart(last.lines[s.i]) =>
           /\ s.next = end
           /\ s.bullet = BulletOf(clean_text(JoinSp(<<SectionHead(last.lines[s.i])>> \o parts)))

\* C20, amended: an iteration that starts at a numbered-section header that
\* is not itself boilerplate takes the following lines up to the first blank
\* line or numbered-section header, leaves out those matching the drop
\* filter, and forms one candidate: the header text without its number
\* followed by these lines, or these lines alone when the header text ends
\* with a colon and there is at least one; the next iteration starts at the
\* line that ended the chunk, so none of the lines before it is evaluated on
\* its own.  A header that matches the drop filter starts no item.
C20_UpToBlankOrHeader ==
  last.kind = "rules" =>
    /\ StepBullets(last.steps) = RuleScan(last.lines, 1, <<>>, last.limit)
    /\ \A n \in 1..Len(last.steps) :
         LET s == last.steps[n]
             ln == last.lines[s.i]
             end == ChunkEnd(last.lines, s.i)
             parts == SelectSeq(SubSeq(last.lines, s.i + 1, end - 1), NotDropped)
             head == SectionHead(ln)
         IN /\ n < Len(last.steps) => last.steps[n + 1].i = s.next
            /\ (SectionStart(ln) /\ IsNoise(ln)) =>
                 (s.kind = "noise" /\ s.next = s.i + 1 /\ s.bullet = <<>>)
            /\ (SectionStart(ln) /\ ~IsNoise(ln)) =>
                 /\ s.kind = "section"
                 /\ s.next = end
                 /\ s.bullet = BulletOf(IF EndsWithColon(head) /\ parts # <<>>
                                        THEN JoinSp(parts)
                                        ELSE clean_text(JoinSp(<<head>> \o parts)))

\* a section took the line after its header into its bullet and ended at a
\* blank line; the line after the blank line became a bullet of its own
C20_Witness ==
  /\ last.kind = "rules"
  /\ Len(last.steps) = 3
  /\ last.steps[1].kind = "section" /\ last.steps[1].next = 3
  /\ last.lines[3] = <<>>
  /\ last.steps[1].bullet =
       <<clean_text(JoinSp(<<SectionHead(last.lines[1]), last.lines[2]>>))>>
  /\ last.steps[3].kind = "line" /\ last.steps[3].bullet = <<last.lines[4]>>
  /\ Len(last.out) = 2

\* ---------------------------------------------------------------------------
\* The requests of one call
\* ---------------------------------------------------------------------------
Count(trace, step) == Cardinality({i \in 1..Len(trace) : trace[i] = step})

\* C21: a call that goes to the server issues one HEAD request and after it
\* at most one GET request, and nothing else; the GET is issued when the HEAD
\* request raised; bytes reach the extraction only when the GET did not fail
\* (no error, no 4xx/5xx status) and the answer is a PDF by its content type
\* or the URL by its suffix.
C21_HeadThenGet ==
  WentOut =>
    /\ Count(last.trace, "HEAD") = 1
    /\ Count(last.trace, "GET") <= 1
    /\ Has(last.trace, "GET") => Before(last.trace, "HEAD", "GET")
    /\ last.fetch.head.kind = "error" => Has(last.trace, "GET")
    /\ Has(last.trace, "extract") =>
         /\ Has(last.trace, "GET")
         /\ last.fetch.get.kind = "ok"
         /\ last.fetch.get.status \notin {"4xx", "5xx"}
         /\ CtypeHasPdf(last.fetch.get.ctype) \/ LooksLikePdfUrl(last.url)

\* the HEAD request raised, the GET was issued and its bytes were summarized
C21_Witness ==
  /\ WentOut /\ last.fetch.head.kind = "error"
  /\ last.trace[2] = "HEAD" /\ last.trace[3] = "GET" /\ Has(last.trace, "extract")
  /\ last.ret # <<>>

\* ---------------------------------------------------------------------------
\* The narrative summarizer on its own
\* ---------------------------------------------------------------------------
JsonAnswers ==
  {Raises, Answer(<<>>), Answer(<<JLB, JRB>>), Answer(<<JObj>>),
   Answer(<<JLB, JStr(LnBudget), JComma, JStr(LnResolution), JRB>>)}

LineAnswers ==
  {Raises, Answer(<<SP>>), Answer(<<"-", SP, NL>>), Answer(LnPlain \o <<NL>> \o LnBudget)}

LlmEnvsAll ==
  LlmEnvs \cup
  {[imp |-> TRUE, init |-> TRUE, r1 |-> a, r2 |-> b, r3 |-> c] :
     a \in JsonAnswers, b \in LineAnswers, c \in LineAnswers}

InitLlm ==
  /\ cfg \in {c \in Configs : ~c.disable /\ ~c.debug /\ ~c.strict}
  /\ cache = [k \in Keys |-> NoFile]
  /\ \E env \in LlmEnvsAll : last = [kind |-> "llm_in", env |-> env]

ApplyLlm ==
  /\ last.kind = "llm_in"
  /\ last' = [kind |-> "llm", env |-> last.env, res |-> OpenaiBullets(last.env, cfg.cap)]
  /\ UNCHANGED <<cfg, cache>>

NextLlm == ApplyLlm

SpecLlm == InitLlm /\ [][NextLlm]_vars

\* the bullets an answer to the JSON request / to a line-based request holds
JsonYield(a, cap) ==
  IF a.kind = "raise" \/ a.body = <<>> THEN <<>>
  ELSE LET data == JsonLoads(StripFences(a.body))
       IN IF data.ok /\ data.isList THEN JsonToBullets(data.val, cap) ELSE <<>>

LinesYield(a, cap) ==
  IF a.kind = "raise" THEN <<>> ELSE LinesToBullets(Strip(a.body), cap)

\* C22 as stated: the requests are the JSON request, the line-based request
\* and the legacy chat request, in this order, a later one issued only when
\* no earlier one yielded bullets; None is returned only when all three were
\* tried and none yielded bullets; a returned list is non-empty and has at
\* most PDF_SUMMARY_MAX_BULLETS entries.
C22_FallsThrough ==
  (last.kind = "llm" /\ last.env.imp /\ last.env.init) =>
    LET res == last.res
        y1 == JsonYield(last.env.r1, cfg.cap)
        y2 == LinesYield(last.env.r2, cfg.cap)
        y3 == LinesYield(last.env.r3, cfg.cap)
    IN /\ res.reqs \in {<<"json">>, <<"json", "lines">>, <<"json", "lines", "chat">>}
       /\ Has(res.reqs, "lines") => y1 = <<>>
       /\ Has(res.reqs, "chat") => (y1 = <<>> /\ y2 = <<>>)
       /\ ~res.some =>
            (res.reqs = <<"json", "lines", "chat">> /\ y1 = <<>> /\ y2 = <<>> /\ y3 = <<>>)
       /\ res.some => (res.val # <<>> /\ Len(res.val) <= cfg.cap)

\* ---------------------------------------------------------------------------
\* The agenda text put into a prompt (lines 217-222)
\* ---------------------------------------------------------------------------
MaxPromptChars == 10
MaxTextLen == 12

\* a text of n characters
TextOf(n) == [i \in 1..n |-> "x"]

\* "\n...\n"
Ellipsis == <<NL, ".", ".", ".", NL>>

\* int(max_chars * 0.7) and int(max_chars * 0.3); the floating-point products
\* truncate to these quotients for every max_chars below 90
HeadChars(max_chars) == (max_chars * 7) \div 10
TailChars(max_chars) == (max_chars * 3) \div 10

\* t[:k]
Prefix(t, k) == SubSeq(t, 1, IF k < Len(t) THEN k ELSE Len(t))

\* t[-k:], which is the whole of t when k is 0
Suffix(t, k) ==
  IF k = 0 \/ k >= Len(t) THEN t ELSE SubSeq(t, Len(t) - k + 1, Len(t))

\* the text between AGENDA TEXT BEGIN and AGENDA TEXT END
PromptText(t, max_chars) ==
  IF Len(t) > max_chars
  THEN Prefix(t, HeadChars(max_chars)) \o Ellipsis \o Suffix(t, TailChars(max_chars))
  ELSE t

InitPrompt ==
  /\ cfg \in {c \in Configs : ~c.disable /\ ~c.debug /\ ~c.strict /\ c.cap = MaxCap}
  /\ cache = [k \in Keys |-> NoFile]
  /\ \E n \in 0..MaxTextLen : \E m \in 1..MaxPromptChars :
       last = [kind |-> "prompt_in", text |-> TextOf(n), max_chars |-> m]

ApplyPrompt ==
  /\ last.kind = "prompt_in"
  /\ last' = [kind |-> "prompt", text |-> last.text, max_chars |-> last.max_chars,
              embedded |-> PromptText(last.text, last.max_chars)]
  /\ UNCHANGED <<cfg, cache>>

NextPrompt == ApplyPrompt

SpecPrompt == InitPrompt /\ [][NextPrompt]_vars

\* C23 as stated: the agenda text embedded in a prompt is never longer than
\* PDF_SUMMARY_MAX_CHARS characters, for every positive value of the cap.
C23_WithinMaxChars ==
  last.kind = "prompt" => Len(last.embedded) <= last.max_chars

\* ---------------------------------------------------------------------------
\* The orchestrator and a raising adapter (main.py, run)
\* ---------------------------------------------------------------------------
AdapterOrder == <<"legistar", "bocc", "pueblo", "trinidad", "alamosa", "salida">>

RECURSIVE Succeeded(_)
\* the records of the adapters that returned, in the order of the calls
Succeeded(log) ==
  IF log = <<>> THEN <<>>
  ELSE Succeeded(SubSeq(log, 1, Len(log) - 1)) \o log[Len(log)].out

\* C24: the adapters are invoked in one fixed order; an adapter that raises
\* adds no record, every later adapter is still invoked, the run reaches the
\* write of the output document with the records of the adapters that
\* returned, and a document that was written holds exactly those records.
C24_RaisingAdapter ==
  last.kind = "run" =>
    /\ Len(last.log) <= Len(AdapterOrder)
    /\ \A i \in 1..Len(last.log) : last.log[i].adapter = AdapterOrder[i]
    /\ \A i \in 1..Len(last.log) : last.log[i].raised => last.log[i].out = <<>>
    /\ last.meetings = Succeeded(last.log)
    /\ Len(last.log) < Len(AdapterOrder) => last.pc = AdapterOrder[Len(last.log) + 1]
    /\ Len(last.log) = Len(AdapterOrder) => last.pc \in {"write", "written", "raised"}
    /\ last.pc = "written" => last.file.meetings = Succeeded(last.log)

C24_Witness ==
  /\ last.kind = "run"
  /\ last.pc = "written"
  /\ last.log[2].raised
  /\ last.log[1].out # <<>>
  /\ last.log[4].out # <<>>
  /\ last.file.meetings = last.log[1].out \o last.log[4].out

\* ---------------------------------------------------------------------------
\* The Alamosa adapter (alamosa_diligent.py, parse_alamosa)
\* ---------------------------------------------------------------------------
MaxAlamosaPages == 2

AlamosaPdf == "https://alamosa.example/agenda.pdf"

AlamosaDetails ==
  {AlamosaPage(AlamosaRegular, d, t, p, "bullets") :
     d \in {<<2026, 11, 4>>, <<2026, 12, 9>>}, t \in {"Time TBD", "6:30 PM"},
     p \in {"None", AlamosaPdf}}
  \cup {AlamosaPage(AlamosaSpecial, <<2026, 11, 4>>, "Time TBD", "None", "bullets"),
         AlamosaPage("None", <<2026, 11, 4>>, "Time TBD", "None", "bullets"),
         AlamosaPage(AlamosaRegular, <<>>, "Time TBD", AlamosaPdf, "bullets"),
         AlamosaPage(AlamosaRegular, <<2026, 11, 3>>, "6:30 PM", AlamosaPdf, "bullets"),
         AlamosaPage(AlamosaRegular, <<2026, 11, 4>>, "6:30 PM", AlamosaPdf, "hit"),
         AlamosaPage(AlamosaRegular, <<2026, 11, 4>>, "6:30 PM", AlamosaPdf, "empty"),
         AlamosaPage(AlamosaRegular, <<2026, 11, 4>>, "6:30 PM", AlamosaPdf, "raise")}

AlamosaWalks ==
  UNION {[1..n -> AlamosaDetails] : n \in 0..MaxAlamosaPages}

InitAlamosa ==
  /\ cfg \in {c \in Configs : ~c.debug /\ ~c.strict /\ c.cap = MaxCap}
  /\ cache = [k \in Keys |-> NoFile]
  /\ \E pages \in AlamosaWalks : last = [kind |-> "alamosa_in", pages |-> pages]

ApplyAlamosa ==
  /\ last.kind = "alamosa_in"
  /\ last' = [kind |-> "alamosa", pages |-> last.pages,
              res |-> AlamosaWalk(cfg, last.pages, 1, <<>>, {}, <<>>)]
  /\ UNCHANGED <<cfg, cache>>

NextAlamosa == ApplyAlamosa

SpecAlamosa == InitAlamosa /\ [][NextAlamosa]_vars

AlamosaIdentity(r) == <<r.date, r.start_time_local, r.meeting_type, r.agenda_url>>

\* C25: a record of parse_alamosa without an agenda URL has the status
\* "Scheduled (no agenda yet)" and an empty agenda_summary that took no
\* network fetch, a record with an agenda URL has the status "Scheduled",
\* and no two records agree in date, start time, meeting type and agenda URL.
C25_AlamosaRecords ==
  (last.kind = "alamosa" /\ ~last.res.raised) =>
    LET out == last.res.out
        calls == last.res.calls
    IN /\ Len(calls) = Len(out)
       /\ \A j \in 1..Len(out) :
            /\ out[j].agenda_url = "None" =>
                 /\ out[j].status = "Scheduled (no agenda yet)"
                 /\ out[j].agenda_summary = <<>>
                 /\ ~calls[j].net
            /\ out[j].agenda_url # "None" => out[j].status = "Scheduled"
       /\ \A j, k \in 1..Len(out) :
            j # k => AlamosaIdentity(out[j]) # AlamosaIdentity(out[k])

C25_Witness ==
  /\ last.kind = "alamosa"
  /\ ~last.res.raised
  /\ Len(last.pages) = 2
  /\ Len(last.res.out) = 2
  /\ last.res.out[1].agenda_url = "None"
  /\ last.res.out[1].status = "Scheduled (no agenda yet)"
  /\ last.res.out[2].agenda_url = AlamosaPdf
  /\ last.res.out[2].agenda_summary # <<>>
  /\ last.res.out[2].date = last.res.out[1].date
  /\ last.res.out[2].start_time_local = last.res.out[1].start_time_local

\* ---------------------------------------------------------------------------
\* Regular expressions (module re) over texts written as sequences of
\* characters: the operators of the patterns the adapters use.  Ends(r, s, i)
\* lists the positions where a match of r that starts at s[i] can end, in
\* the order in which the backtracking matcher tries them.
\* ---------------------------------------------------------------------------
Digits == {"0", "1", "2", "3", "4", "5", "6", "7", "8", "9"}
Letters == {"A", "P", "M", "a", "p", "m", "n", "o"}
WordChars == Digits \cup Letters \cup {"_"}
Spaces == {" ", TAB, NL}

ReSet(set) == [op |-> "set", set |-> set]
ReCat(a, b) == [op |-> "cat", a |-> a, b |-> b]
ReOr(a, b) == [op |-> "or", a |-> a, b |-> b]
ReOpt(a) == [op |-> "opt", a |-> a]
RePlus(a) == [op |-> "plus", a |-> a]
ReWb == [op |-> "wb"]
ReEnd == [op |-> "end"]

RECURSIVE Ends(_, _, _)
RECURSIVE Thread(_, _, _)
RECURSIVE ThreadPlus(_, _, _)
Ends(r, s, i) ==
  CASE r.op = "set" -> IF i <= Len(s) /\ s[i] \in r.set THEN <<i + 1>> ELSE <<>>
    [] r.op = "cat" -> Thread(Ends(r.a, s, i), r.b, s)
    [] r.op = "or" -> Ends(r.a, s, i) \o Ends(r.b, s, i)
    [] r.op = "opt" -> Ends(r.a, s, i) \o <<i>>
    [] r.op = "plus" -> ThreadPlus(Ends(r.a, s, i), r, s)
    [] r.op = "wb" ->
         IF (i > 1 /\ s[i - 1] \in WordChars) # (i <= Len(s) /\ s[i] \in WordChars)
         THEN <<i>> ELSE <<>>
    [] r.op = "end" ->
         IF i = Len(s) + 1 \/ (i = Len(s) /\ s[i] = NL) THEN <<i>> ELSE <<>>

Thread(es, rb, s) ==
  IF es = <<>> THEN <<>> ELSE Ends(rb, s, Head(es)) \o Thread(Tail(es), rb, s)

ThreadPlus(es, r, s) ==
  IF es = <<>> THEN <<>>
  ELSE Ends(r, s, Head(es)) \o <<Head(es)>> \o ThreadPlus(Tail(es), r, s)

\* re.match(r, s)
ReMatch(r, s) == Ends(r, s, 1) # <<>>

\* re.search(r, s): the leftmost match, as [found, text]
ReSearch(r, s) ==
  LET starts == {p \in 1..(Len(s) + 1) : Ends(r, s, p) # <<>>} IN
  IF starts = {} THEN [found |-> FALSE, text |-> <<>>]
  ELSE LET p == CHOOSE q \in starts : \A o \in starts : q <= o IN
       [found |-> TRUE, text |-> SubSeq(s, p, Head(Ends(r, s, p)) - 1)]

RECURSIVE ReSubFrom(_, _, _, _)
\* re.sub(r, repl, s) for a pattern that matches no empty text
ReSubFrom(r, repl, s, i) ==
  IF i > Len(s) THEN <<>>
  ELSE LET es == Ends(r, s, i) IN
       IF es # <<>> /\ Head(es) > i THEN repl \o ReSubFrom(r, repl, s, Head(es))
       ELSE <<s[i]>> \o ReSubFrom(r, repl, s, i + 1)

ReSub(r, repl, s) == ReSubFrom(r, repl, s, 1)

RECURSIVE ReplaceFrom(_, _, _, _)
\* s.replace(old, new)
ReplaceFrom(s, old, new, i) ==
  IF i > Len(s) THEN <<>>
  ELSE IF i + Len(old) - 1 <= Len(s) /\ SubSeq(s, i, i + Len(old) - 1) = old
       THEN new \o ReplaceFrom(s, old, new, i + Len(old))
  ELSE <<s[i]>> \o ReplaceFrom(s, old, new, i + 1)

Replace(s, old, new) == ReplaceFrom(s, old, new, 1)

\* s.upper(), on the letters of the inputs
UpperChar(c) ==
  CASE c = "a" -> "A" [] c = "p" -> "P" [] c = "m" -> "M"
    [] c = "n" -> "N" [] c = "o" -> "O" [] OTHER -> c

UpperText(s) == [i \in 1..Len(s) |-> UpperChar(s[i])]

\* s.strip()
StripText(s) ==
  LET keep == {i \in 1..Len(s) : s[i] \notin Spaces} IN
  IF keep = {} THEN <<>>
  ELSE SubSeq(s, CHOOSE a \in keep : \A b \in keep : a <= b,
                 CHOOSE a \in keep : \A b \in keep : a >= b)

DigitVal(c) ==
  CASE c = "0" -> 0 [] c = "1" -> 1 [] c = "2" -> 2 [] c = "3" -> 3 [] c = "4" -> 4
    [] c = "5" -> 5 [] c = "6" -> 6 [] c = "7" -> 7 [] c = "8" -> 8 [] c = "9" -> 9

DigitChar(n) == <<"0", "1", "2", "3", "4", "5", "6", "7", "8", "9">>[n + 1]

RECURSIVE IntOf(_)
\* int(s) for a text of decimal digits
IntOf(s) ==
  IF s = <<>> THEN 0 ELSE 10 * IntOf(SubSeq(s, 1, Len(s) - 1)) + DigitVal(s[Len(s)])

\* ---------------------------------------------------------------------------
\* EventTime of a Legistar event (coloradosprings_legistar.py, lines 44-108)
\* ---------------------------------------------------------------------------
ReHour24 ==
  ReOr(ReCat(ReOpt(ReSet({"0", "1"})), ReSet(Digits)),
       ReCat(ReSet({"2"}), ReSet({"0", "1", "2", "3"})))
ReHour12 == ReOr(ReSet(Digits \ {"0"}), ReCat(ReSet({"1"}), ReSet({"0", "1", "2"})))
ReMinutes == ReCat(ReSet({"0", "1", "2", "3", "4", "5"}), ReSet(Digits))
ReColon == ReSet({":"})
ReSpaceOpt == ReOpt(ReSet(Spaces))

\* [AP]\.?M\.? under re.IGNORECASE
ReAmPmDots ==
  ReCat(ReSet({"A", "P", "a", "p"}),
        ReCat(ReOpt(ReSet({"."})), ReCat(ReSet({"M", "m"}), ReOpt(ReSet({"."})))))

\* [AP]M
ReAmPm == ReCat(ReSet({"A", "P"}), ReSet({"M"}))

TIME_RE ==
  ReCat(ReWb,
    ReCat(ReOr(ReCat(ReHour24, ReCat(ReColon, ReCat(ReMinutes,
                       ReOpt(ReCat(ReSpaceOpt, ReAmPmDots))))),
               ReCat(ReHour12,
                 ReCat(ReOpt(ReCat(ReSpaceOpt, ReCat(ReColon, ReCat(ReSpaceOpt, ReMinutes)))),
                       ReCat(ReSpaceOpt, ReAmPmDots)))),
          ReWb))

\* ^(?:[01]?\d|2[0-3]):[0-5]\d$
Re24h == ReCat(ReHour24, ReCat(ReColon, ReCat(ReMinutes, ReEnd)))
\* ^(?:[1-9]|1[0-2])\s?[AP]M$
ReHourOnly == ReCat(ReHour12, ReCat(ReSpaceOpt, ReCat(ReAmPm, ReEnd)))
\* ^(?:[1-9]|1[0-2]):[0-5]\d\s?[AP]M$
ReClock12 ==
  ReCat(ReHour12, ReCat(ReColon, ReCat(ReMinutes, ReCat(ReSpaceOpt, ReCat(ReAmPm, ReEnd)))))

normalize_ampm(s) ==
  UpperText(ReSub(RePlus(ReSet(Spaces)), <<" ">>, ReSub(ReSet({"."}), <<>>, StripText(s))))

TimeNone == [kind |-> "none", s |-> <<>>]
TimeText(s) == [kind |-> "str", s |-> s]
TimeRaise == [kind |-> "raise", s |-> <<>>]

\* f"{h12}:{mm:02d} {ampm}"
ClockText(h, mm) ==
  LET h12 == IF h % 12 = 0 THEN 12 ELSE h % 12 IN
  (IF h12 >= 10 THEN <<"1", DigitChar(h12 - 10)>> ELSE <<DigitChar(h12)>>)
    \o <<":", DigitChar(mm \div 10), DigitChar(mm % 10), " ">>
    \o (IF h < 12 THEN <<"A", "M">> ELSE <<"P", "M">>)

fmt_minutes_after_midnight(m) ==
  IF 0 <= m /\ m < 24 * 60 THEN TimeText(ClockText(m \div 60, m % 60)) ELSE TimeNone

\* str.isdigit() holds for "²", which int() does not read
IsDigitText(s) == s # <<>> /\ \A i \in 1..Len(s) : s[i] \in Digits \cup {"²"}

parse_time_field(raw) ==
  IF raw.kind = "none" THEN TimeNone
  ELSE IF raw.kind = "bool" THEN fmt_minutes_after_midnight(IF raw.b THEN 1 ELSE 0)
  ELSE IF raw.kind = "int" THEN fmt_minutes_after_midnight(raw.n)
  ELSE IF IsDigitText(raw.s)
    THEN IF \E i \in 1..Len(raw.s) : raw.s[i] = "²" THEN TimeRaise
         ELSE fmt_minutes_after_midnight(IntOf(raw.s))
  ELSE LET m == ReSearch(TIME_RE, StripText(raw.s))
           t == normalize_ampm(m.text)
       IN IF ~m.found THEN TimeNone
          ELSE IF ReMatch(Re24h, t)
            THEN LET c == CHOOSE k \in 1..Len(t) : t[k] = ":" IN
                 TimeText(ClockText(IntOf(SubSeq(t, 1, c - 1)), IntOf(SubSeq(t, c + 1, c + 2))))
          ELSE IF ReMatch(ReHourOnly, t)
            THEN TimeText(Replace(Replace(t, <<"A", "M">>, <<":", "0", "0", " ", "A", "M">>),
                                  <<"P", "M">>, <<":", "0", "0", " ", "P", "M">>))
          ELSE IF ReMatch(ReClock12, t)
            THEN TimeText(ReSub(RePlus(ReSet(Spaces)), <<" ">>, t))
          ELSE TimeNone

MaxMinutes == 1441

ClockHours == {<<"0">>, <<"6">>, <<"0", "6">>, <<"1", "2">>, <<"1", "8">>, <<"2", "4">>}
ClockMinutes == {<<>>, <<":", "0", "0">>, <<":", "3", "0">>}
ClockGaps == {<<>>, <<" ">>, <<" ", " ">>}
ClockSuffixes == {<<>>, <<"A", "M">>, <<"P", "M">>, <<"P", ".", "M", ".">>, <<"p", "m">>}

TimeInputs ==
  {[kind |-> "none"], [kind |-> "bool", b |-> TRUE], [kind |-> "bool", b |-> FALSE]}
  \cup {[kind |-> "int", n |-> n] : n \in (-1)..MaxMinutes}
  \cup {[kind |-> "str", s |-> s] :
          s \in {<<"0">>, <<"1", "0", "8", "0">>, <<"1", "4", "4", "0">>,
                 <<"n", "o", "o", "n">>, <<>>}}
  \cup {[kind |-> "str", s |-> h \o mm \o g \o x] :
          h \in ClockHours, mm \in ClockMinutes, g \in ClockGaps, x \in ClockSuffixes}

InitTime ==
  /\ cfg \in {c \in Configs : ~c.disable /\ ~c.debug /\ ~c.strict /\ c.cap = MaxCap}
  /\ cache = [k \in Keys |-> NoFile]
  /\ \E raw \in TimeInputs : last = [kind |-> "time_in", raw |-> raw]

ApplyTime ==
  /\ last.kind = "time_in"
  /\ last' = [kind |-> "time", raw |-> last.raw, res |-> parse_time_field(last.raw)]
  /\ UNCHANGED <<cfg, cache>>

NextTime == ApplyTime

SpecTime == InitTime /\ [][NextTime]_vars

\* 'H:MM AM' or 'H:MM PM', H in 1..12, MM in 00..59, one space
ClockForm(s) ==
  \E h \in 0..23 : \E mm \in 0..59 : s = ClockText(h, mm)

\* C26 as stated: _parse_time_field returns None or a text of the exact form
\* 'H:MM AM' / 'H:MM PM' with one space before AM/PM, whatever the EventTime;
\* an integer outside 0..1439 gives None and the integer 0 gives '12:00 AM'.
C26_ClockForm ==
  last.kind = "time" =>
    /\ last.res.kind = "none" \/ (last.res.kind = "str" /\ ClockForm(last.res.s))
    /\ (last.raw.kind = "int" /\ (last.raw.n < 0 \/ last.raw.n > 1439)) => last.res.kind = "none"
    /\ (last.raw.kind = "int" /\ last.raw.n = 0) => last.res = TimeText(ClockText(0, 0))

\* ---------------------------------------------------------------------------
\* The bullet filter of the Legistar adapter (coloradosprings_legistar.py,
\* lines 145-217); lines are sequences of words and white space as above
\* ---------------------------------------------------------------------------
BULLET_LIMIT == 16
SoftKeep == 6

\* s starts with the run of tokens p
StartsWith(s, p) == Len(s) >= Len(p) /\ SubSeq(s, 1, Len(p)) = p

\* s ends with the run of tokens p
EndsWith(s, p) == Len(s) >= Len(p) /\ SubSeq(s, Len(s) - Len(p) + 1, Len(s)) = p

\* words of the vocabulary that hold "broadcast", "livestream" or "televised",
\* that end in "ada", that hold "ada", that start with "18"
BroadcastToks == {"broadcast", "livestream", "televised"}
EndsInAdaToks == {"ada"}
HoldsAdaToks == {"ada"}
Starts18Toks == {"18"}

\* channel\s*18 on a line whose white space is collapsed
Channel18(l) ==
  \E i \in 1..Len(l) :
    /\ l[i] = "channel"
    /\ \/ (i + 1 <= Len(l) /\ l[i + 1] \in Starts18Toks)
       \/ (i + 2 <= Len(l) /\ IsWs(l[i + 1]) /\ l[i + 2] \in Starts18Toks)

\* _DROP_RE.search(line), re.IGNORECASE, on the words of the vocabulary
LegistarDropRe(line) ==
  LET l == Lower(line) IN
    \/ StartsWith(l, <<"city", SP, "of", SP, "colorado", SP, "springs">>)
    \/ HasPhrase(l, <<"council", SP, "work", SP, "session">>)
    \/ HasPhrase(l, <<"work", SP, "session", SP, "meeting", SP, "agenda">>)
    \/ \E i, j \in 1..Len(l) : i < j /\ l[i] = "agenda" /\ l[j] = "final"
    \/ HasPhrase(l, <<"agenda", SP, "may">>)
    \/ HasPhrase(l, <<"agenda", SP, "subject", SP, "to">>)
    \/ Channel18(l)
    \/ \E i \in 1..Len(l) : l[i] \in BroadcastToks \cup EndsInAdaToks
    \/ HasPhrase(l, <<"auxiliary", SP, "aid">>)
    \/ HasPhrase(l, <<"public", SP, "comment">>)
    \/ HasPhrase(l, <<"call", SP, "to", SP, "order">>)
    \/ HasPhrase(l, <<"roll", SP, "call">>)
    \/ HasPhrase(l, <<"pledge", SP, "of", SP, "allegiance">>)
    \/ HasPhrase(l, <<"approval", SP, "of", SP, "minutes">>)
    \/ HasPhrase(l, <<"approval", SP, "of", SP, "the", SP, "minutes">>)
    \/ \E i \in 1..Len(l) : l[i] \in {"adjournment", "adjourment"}
    \/ EndsWith(l, <<"city", SP, "hall">>)
    \/ l \in {<<"criteria">>, <<"criteria.">>}
    \/ l \in {<<"80903">>, <<"2026-11-04">>}

\* lines 181-188: the primary tests on a cleaned line
PrimaryPass(line) ==
  /\ line # <<>>
  /\ ~LegistarDropRe(line)
  /\ ~(CountWords(line) < 3 /\ ~HasDigit(line))
  /\ ~(Width(line) < 25 /\ ~HasDigit(line))

\* line 203: ADA|auxiliary aid|channel\s*18|broadcast|livestream|televised
SoftBoilerplate(line) ==
  LET l == Lower(line) IN
    \/ \E i \in 1..Len(l) : l[i] \in HoldsAdaToks \cup BroadcastToks
    \/ HasPhrase(l, <<"auxiliary", SP, "aid">>)
    \/ Channel18(l)

RECURSIVE FilterScan(_, _, _, _, _, _)
\* one of the two loops: keep(line) is the test of the loop
FilterScan(bullets, i, out, seen, limit, soft) ==
  IF i > Len(bullets) THEN [out |-> out, seen |-> seen]
  ELSE LET line == clean_text(bullets[i])
           keep == IF soft THEN line # <<>> /\ ~SoftBoilerplate(line)
                   ELSE PrimaryPass(line)
       IN IF ~keep \/ Lower(line) \in seen
          THEN FilterScan(bullets, i + 1, out, seen, limit, soft)
          ELSE IF Len(out) + 1 >= limit
               THEN [out |-> Append(out, line), seen |-> seen \cup {Lower(line)}]
          ELSE FilterScan(bullets, i + 1, Append(out, line), seen \cup {Lower(line)},
                          limit, soft)

\* line 198: "keep up to `limit` cleaned non-obvious lines"
SoftLimit(limit) == limit

filter_bullets(bullets, limit) ==
  LET first == FilterScan(bullets, 1, <<>>, {}, limit, FALSE) IN
  IF first.out # <<>> THEN first.out
  ELSE FilterScan(bullets, 1, <<>>, first.seen, SoftLimit(limit), TRUE).out

LnRollCall == <<"roll", SP, "call">>
LnPublicComment == <<"public", SP, "comment">>
LnCityHall == <<"city", SP, "hall">>
LnNewBusiness == <<"new", SP, "business">>

FilterLines ==
  {<<>>, LnBudget, LnBudgetLoose, LnCallToOrder, LnWorkSession, LnChannel, LnAda,
   LnPlain, LnLive}

SevenRejected ==
  <<LnCallToOrder, LnRollCall, LnPublicComment, LnWorkSession, LnPlain, LnNewBusiness,
    LnCityHall>>

FilterBullets ==
  {<<>>} \cup {<<a>> : a \in FilterLines} \cup {<<a, b>> : a, b \in FilterLines}
  \cup {SevenRejected, Append(SevenRejected, LnBudget), <<LnAda>> \o SevenRejected,
        <<LnBudget, LnLive, LnResolution>>}

FilterLimits == {1, SmallLimit, BULLET_LIMIT}

InitFilter ==
  /\ cfg \in {c \in Configs : ~c.disable /\ ~c.debug /\ ~c.strict /\ c.cap = MaxCap}
  /\ cache = [k \in Keys |-> NoFile]
  /\ \E bs \in FilterBullets : \E limit \in FilterLimits :
       last = [kind |-> "filter_in", bullets |-> bs, limit |-> limit]

ApplyFilter ==
  /\ last.kind = "filter_in"
  /\ last' = [kind |-> "filter", bullets |-> last.bullets, limit |-> last.limit,
              out |-> filter_bullets(last.bullets, last.limit)]
  /\ UNCHANGED <<cfg, cache>>

NextFilter == ApplyFilter

SpecFilter == InitFilter /\ [][NextFilter]_vars

CleanedInputs == {clean_text(last.bullets[i]) : i \in 1..Len(last.bullets)}

SomePasses == \E line \in CleanedInputs : PrimaryPass(line)

DistinctLower(out) ==
  \A i, j \in 1..Len(out) : i # j => Lower(out[i]) # Lower(out[j])

\* C27 as stated: when no input bullet passes the primary filter the result
\* is a soft fallback of at most 6 cleaned, case-insensitively distinct lines
\* that are not obvious boilerplate; when some bullet passes, the result holds
\* only bullets that passed, at most `limit` of them.
C27_SoftFallbackOfSix ==
  last.kind = "filter" =>
    IF SomePasses
    THEN /\ \A i \in 1..Len(last.out) : PrimaryPass(last.out[i])
         /\ Len(last.out) <= last.limit
    ELSE /\ Len(last.out) <= SoftKeep
         /\ \A i \in 1..Len(last.out) :
              last.out[i] \in CleanedInputs /\ ~SoftBoilerplate(last.out[i])
         /\ DistinctLower(last.out)

\* ---------------------------------------------------------------------------
\* The session types of El Paso County (epc_agendasuite.py, parse_epc)
\* ---------------------------------------------------------------------------
MaxEpcLinks == 2

EpcListings ==
  {EpcLink(t, <<12, 9, 2026>>, EpcDetail(TRUE, <<h>>)) :
     t \in {TBocc, TBoccMeeting, TBoccWork, TWorkshop},
     h \in {TBocc, TBoccMeeting, TBoccWork, TBoccStudy, TBoccRetreat}}
  \cup {EpcLink(TBocc, <<12, 9, 2026>>, EpcDetail(TRUE, <<>>)),
        EpcLink(TBocc, <<12, 9, 2026>>, EpcDetail(FALSE, <<>>)),
        EpcLink(TBocc, <<11, 3, 2026>>, EpcDetail(TRUE, <<TBocc>>)),
        EpcLink(TBocc, <<12, 9, 2026>>, EpcDetail(TRUE, <<TBoccWork, TBoccMeeting>>))}

EpcPages == UNION {[1..n -> EpcListings] : n \in 0..MaxEpcLinks}

InitEpc ==
  /\ cfg \in {c \in Configs : ~c.disable /\ ~c.debug /\ ~c.strict /\ c.cap = MaxCap}
  /\ cache = [k \in Keys |-> NoFile]
  /\ \E links \in EpcPages : last = [kind |-> "epc_in", links |-> links]

ApplyEpc ==
  /\ last.kind = "epc_in"
  /\ last' = [kind |-> "epc", links |-> last.links,
              res |-> EpcWalk(last.links, 1, <<>>, <<>>)]
  /\ UNCHANGED <<cfg, cache>>

NextEpc == ApplyEpc

SpecEpc == InitEpc /\ [][NextEpc]_vars

\* the text names a work session, study session, workshop or retreat
SessionType(t) ==
  LET l == SelectSeq(Lower(t), LAMBDA x : ~IsWs(x)) IN
    \/ HasPhrase(l, <<"work", "session">>)
    \/ HasPhrase(l, <<"study", "session">>)
    \/ \E i \in 1..Len(l) : l[i] \in {"workshop", "retreat"}

\* C28 as stated: parse_epc returns no meeting whose homepage listing or
\* detail-page title names a work session, study session, workshop or
\* retreat; the detail-page title is the heading _meeting_title_from_detail
\* picks.
C28_NoSessionTypes ==
  last.kind = "epc" =>
    \A j \in 1..Len(last.res.out) :
      LET link == last.links[last.res.from[j]] IN
        /\ ~SessionType(link.title)
        /\ ~SessionType(ShortestAllowed(link.detail.heads))

\* ---------------------------------------------------------------------------
\* The second pass over meetings.json (summarize.py)
\* ---------------------------------------------------------------------------
SUMMARY_MAX_CHARS == 50000
SlugLength == 80
MaxMeetings == 2

\* (meeting.get(key) or "").strip() or None; "None" stands for a missing or
\* null field
UrlOf(v) == IF v \in {"None", "", " "} THEN "None" ELSE v

\* _fetch_text_url / _fetch_pdf_url: the text they return, <<>> for None or ""
FetchTextUrl(f) == IF f.kind = "ok" THEN f.text ELSE <<>>

FetchPdfUrl(f) == IF f.kind = "ok" THEN f.text ELSE <<>>

SummaryResult(ok, bullets, used_url, used_kind, chars, trace) ==
  [ok |-> ok, bullets |-> bullets, used_url |-> used_url, used_kind |-> used_kind,
   chars |-> chars, trace |-> trace]

\* only the text stream is tried
summarize_meeting_TextOnly(meeting, env) ==
  LET text_url == UrlOf(meeting.agenda_text_url)
      txt == FetchTextUrl(env.text)
  IN IF text_url # "None" /\ txt # <<>>
     THEN SummaryResult(TRUE, env.llm, text_url, "text", Len(Prefix(txt, env.maxc)), <<"text">>)
     ELSE SummaryResult(FALSE, <<>>, text_url, "None", 0,
                        IF text_url # "None" THEN <<"text">> ELSE <<>>)

\* lines 194-223; trace lists the requests in the order they are sent, env is
\* what the two servers and llm_summarize answer
summarize_meeting(meeting, env) ==
  LET text_url == UrlOf(meeting.agenda_text_url)
      pdf_url == UrlOf(meeting.agenda_url)
      txt == FetchTextUrl(env.text)
      pdf == FetchPdfUrl(env.pdf)
      t1 == IF text_url # "None" THEN <<"text">> ELSE <<>>
  IN IF text_url # "None" /\ txt # <<>>
     THEN SummaryResult(TRUE, env.llm, text_url, "text", Len(Prefix(txt, env.maxc)), t1)
     ELSE IF pdf_url # "None" /\ pdf # <<>>
     THEN SummaryResult(TRUE, env.llm, pdf_url, "pdf", Len(Prefix(pdf, env.maxc)),
                        Append(t1, "pdf"))
     ELSE SummaryResult(FALSE, <<>>, IF text_url # "None" THEN text_url ELSE pdf_url,
                        "None", 0, IF pdf_url # "None" THEN Append(t1, "pdf") ELSE t1)

RECURSIVE DashWs(_)
\* re.sub(r"\s+", "-", s)
DashWs(s) ==
  IF s = <<>> THEN <<>>
  ELSE IF IsWs(Head(s)) THEN <<"-">> \o DashWs(LStrip(s))
  ELSE <<Head(s)>> \o DashWs(Tail(s))

\* _slugify: the words of the model hold only letters, digits and hyphens,
\* which the second re.sub keeps
Slugify(s) ==
  LET cut == Truncate(DashWs(Lower(Strip(s))), SlugLength) IN
  IF cut = <<>> THEN <<"meeting">> ELSE cut

\* lines 256-259: title, date and city of a record, and the slug of its meta
\* file
TitleOf(m) == IF m.title = <<>> THEN <<"Meeting">> ELSE Strip(m.title)

MetaSlug(m) == Slugify(m.date \o <<"-">> \o Strip(m.city_or_body) \o <<"-">> \o TitleOf(m))

\* lines 281-284
MergeBack(m, res) ==
  IF res.ok /\ res.bullets # <<>> /\ res.used_kind \in {"text", "pdf"}
  THEN [m EXCEPT !.agenda_summary = res.bullets,
                 !.agenda_summary_source = res.used_kind,
                 !.agenda_summary_chars = res.chars]
  ELSE m

\* a record of meetings.json; title is <<>> for the records of make_meeting,
\* which have a meeting_type and no title; the last two fields are "None" and
\* 0 until the second pass sets them
Meeting(title, date, mtype, pdf, text) ==
  [title |-> title, date |-> date, city_or_body |-> <<"City", SP, "of", SP, "Alamosa">>,
   meeting_type |-> mtype, agenda_url |-> pdf, agenda_text_url |-> text,
   agenda_summary |-> <<>>, agenda_summary_source |-> "None", agenda_summary_chars |-> 0]

MeetingRecords ==
  {Meeting(<<>>, <<"2026-11-10">>, AlamosaRegular, AlamosaPdf, "None"),
   Meeting(<<>>, <<"2026-11-10">>, AlamosaSpecial, AlamosaPdf, "https://alamosa.example/agenda.txt"),
   Meeting(<<>>, <<"2026-12-09">>, AlamosaRegular, "None", " "),
   Meeting(<<"Council", SP, "Meeting">>, <<"2026-11-10">>, AlamosaRegular, "None",
           "https://alamosa.example/agenda.txt")}

\* the meetings of a meetings.json: different records
MeetingFiles ==
  {f \in UNION {[1..n -> MeetingRecords] : n \in 1..MaxMeetings} :
     \A i, j \in 1..Len(f) : i # j => f[i] # f[j]}

FetchAnswers ==
  {[kind |-> "raise", text |-> <<>>], [kind |-> "http404", text |-> <<>>],
   [kind |-> "ok", text |-> <<>>], [kind |-> "ok", text |-> TextOf(MaxTextLen)]}

NoAnswer == [kind |-> "none", text |-> <<>>]

\* what the servers and llm_summarize answer for meeting m; a URL the
\* meeting lacks is never requested and has no answer; maxc is
\* DEFAULT_MAX_CHARS, read from PDF_SUMMARY_MAX_CHARS at import
SummarizeEnvs(m, maxc) ==
  [text : IF UrlOf(m.agenda_text_url) = "None" THEN {NoAnswer} ELSE FetchAnswers,
   pdf : IF UrlOf(m.agenda_url) = "None" THEN {NoAnswer} ELSE FetchAnswers,
   llm : {<<>>, <<LnBudget>>}, maxc : {maxc}]

InitSummarize ==
  /\ cfg \in {c \in Configs : ~c.disable /\ ~c.debug /\ ~c.strict /\ c.cap = MaxCap}
  /\ cache = [k \in Keys |-> NoFile]
  /\ \E ms \in MeetingFiles : \E maxc \in {MaxPromptChars, SUMMARY_MAX_CHARS} :
       last = [kind |-> "summarize", i |-> 1, input |-> ms, file |-> ms, meetings |-> ms, maxc |-> maxc,
               metas |-> {}, log |-> <<>>, written |-> FALSE]

\* lines 255-293: one turn of the loop
SummarizeOne ==
  /\ last.kind = "summarize"
  /\ last.i <= Len(last.meetings)
  /\ \E env \in SummarizeEnvs(last.meetings[last.i], last.maxc) :
       LET m == last.meetings[last.i]
           res == summarize_meeting(m, env)
           meta == [idx |-> last.i, used_kind |-> res.used_kind, ok |-> res.ok,
                    bullets |-> res.bullets]
       IN last' = [last EXCEPT
                     !.i = last.i + 1,
                     !.meetings[last.i] = MergeBack(m, res),
                     !.metas = {f \in last.metas : f.name # MetaSlug(m)}
                                 \cup {[name |-> MetaSlug(m), meta |-> meta]},
                     !.log = Append(last.log, [env |-> env, res |-> res])]
  /\ UNCHANGED <<cfg, cache>>

\* line 296: _write_json(in_path, payload)
WriteBack ==
  /\ last.kind = "summarize"
  /\ last.i > Len(last.meetings)
  /\ ~last.written
  /\ last' = [last EXCEPT !.file = last.meetings, !.written = TRUE]
  /\ UNCHANGED <<cfg, cache>>

NextSummarize == SummarizeOne \/ WriteBack

SpecSummarize == InitSummarize /\ [][NextSummarize]_vars

TextYielded(m, env) == UrlOf(m.agenda_text_url) # "None" /\ env.text.kind = "ok" /\ env.text.text # <<>>

PdfYielded(m, env) == UrlOf(m.agenda_url) # "None" /\ env.pdf.kind = "ok" /\ env.pdf.text # <<>>

\* C29: summarize_meeting requests the agenda PDF only when the meeting has no
\* agenda_text_url or the text fetch gave no text, never after a text fetch
\* that gave text, and the result has ok = False with no bullets exactly when
\* neither source gave text.
C29_TextBeforePdf ==
  last.kind = "summarize" =>
    \A j \in 1..Len(last.log) :
      LET m == last.input[j]
          e == last.log[j]
      IN /\ Has(e.res.trace, "pdf") =>
              (UrlOf(m.agenda_text_url) = "None" \/ ~TextYielded(m, e.env))
         /\ TextYielded(m, e.env) => e.res.trace = <<"text">>
         /\ (~e.res.ok /\ e.res.bullets = <<>>) <=>
              (~TextYielded(m, e.env) /\ ~PdfYielded(m, e.env))

C29_Witness ==
  /\ last.kind = "summarize"
  /\ Len(last.log) = 1
  /\ last.log[1].res.trace = <<"text", "pdf">>
  /\ last.log[1].res.ok
  /\ last.log[1].res.used_kind = "pdf"
  /\ last.log[1].env.text.kind = "ok"

\* C30 as stated: in the rewritten meetings file a meeting has its
\* agenda_summary, agenda_summary_source and agenda_summary_chars set from the
\* result exactly when its summarization succeeded with at least one bullet,
\* every other meeting has all its fields as they were loaded, and each
\* processed meeting has a meta file of its own.
C30_MergeAndMeta ==
  (last.kind = "summarize" /\ last.written) =>
    /\ Len(last.file) = Len(last.input)
    /\ \A j \in 1..Len(last.input) :
         LET res == last.log[j].res IN
           /\ (res.ok /\ res.bullets # <<>>) =>
                last.file[j] = [last.input[j] EXCEPT !.agenda_summary = res.bullets,
                                                     !.agenda_summary_source = res.used_kind,
                                                     !.agenda_summary_chars = res.chars]
           /\ ~(res.ok /\ res.bullets # <<>>) => last.file[j] = last.input[j]
           /\ \E f \in last.metas : f.meta.idx = j
    /\ Cardinality(last.metas) = Len(last.input)

====
